---------------------------- MODULE Spec2Model ----------------------------
(***************************************************************************)
(* A model of the Jack compiler of this repository: the symbol table       *)
(* (src/JackToVM/SymbolTable.py), the tokenizer                             *)
(* (src/JackToXML/JackTokenizer.py: its comment removal, its tokens and     *)
(* advance / next_token_tuple) and the code-generating recursive-descent    *)
(* engine (src/XMLtoVM/CompilationEngine.py).                               *)
(*                                                                          *)
(* A token is the pair <<type, value>> the tokenizer delivers.  The VM      *)
(* output is the sequence of calls the engine makes to its writer, each     *)
(* written as the tuple of words of the instruction, e.g.                   *)
(* <<"push", "constant", "1">>, <<"label", "WHILE_START0">>, <<"not">>.     *)
(***************************************************************************)
EXTENDS Integers, Sequences, FiniteSets, TLC

VARIABLES
    tokens,         \* JackTokenizer.__tokens: the tokens not yet consumed
    out,            \* the instructions handed to the VM writer so far
    symbol_table,   \* the SymbolTable object (a record of its attributes)
    class_name,     \* CompilationEngine.__class_name
    function_type,  \* local of __compile_subroutine: constructor/method/function
    cur_name,       \* local of __compile_subroutine: "<class>.<subroutine>"
    pc,             \* position of the engine inside compile_class
    consumed,       \* history: the tokens consumed so far, in order
    calls,          \* history: the calls a client has made to the symbol table
    input_file_str, \* JackTokenizer.__input_file_str, as a sequence of characters
    scan_idx,       \* the characters of it findall has scanned in __get_tokens
    cur_idx,        \* local of __remove_comments: its position in the text
    comment_free_str \* local of __remove_comments: the text it has kept

vars == <<tokens, out, symbol_table, class_name, function_type, cur_name, pc,
          consumed, calls, input_file_str, scan_idx, cur_idx,
          comment_free_str>>

-----------------------------------------------------------------------------
(* Python values *)

None == "None"

EmptyDict == [x \in {} |-> <<>>]

\* d[k] = v on a dict
DictPut(d, k, v) == [x \in (DOMAIN d) \cup {k} |-> IF x = k THEN v ELSE d[x]]

\* "{}".format(n) of an int
Str(n) == ToString(n)

\* "{}.{}".format(a, b)
Dotted(a, b) == a \o "." \o b

-----------------------------------------------------------------------------
(* SymbolTable.  A dict entry is the tuple <<type, kind, index>>.          *)
(* __cur_symbol_table is a reference to a dict object: to the class-level  *)
(* dict, to the dict stored under a name in __subroutine_symbol_table, or  *)
(* to a dict that start_subroutine has replaced under its name and that    *)
(* only __cur_symbol_table still refers to.                                *)

RefClass == [ref |-> "class"]
RefSub(name) == [ref |-> "sub", name |-> name]
RefOrphan(table) == [ref |-> "orphan", table |-> table]

SymbolTableInit ==
    [class_level_symbol_table |-> EmptyDict,
     subroutine_symbol_table |-> EmptyDict,
     cur_symbol_table |-> RefClass,
     static_counter |-> 0,
     field_counter |-> 0,
     arg_counter |-> 0,
     var_counter |-> 0,
     if_counter |-> 0,
     while_counter |-> 0]

\* the dict object __cur_symbol_table refers to
CurTable(st) ==
    CASE st.cur_symbol_table.ref = "class" -> st.class_level_symbol_table
      [] st.cur_symbol_table.ref = "sub" ->
            st.subroutine_symbol_table[st.cur_symbol_table.name]
      [] OTHER -> st.cur_symbol_table.table

\* self.__cur_symbol_table[name] = entry: a store through the reference
CurTablePut(st, name, entry) ==
    CASE st.cur_symbol_table.ref = "class" ->
            [st EXCEPT !.class_level_symbol_table = DictPut(@, name, entry)]
      [] st.cur_symbol_table.ref = "sub" ->
            [st EXCEPT !.subroutine_symbol_table[st.cur_symbol_table.name] =
                            DictPut(@, name, entry)]
      [] OTHER ->
            [st EXCEPT !.cur_symbol_table =
                            RefOrphan(DictPut(@.table, name, entry))]

\* a start_subroutine that keeps the symbols a subroutine of that name left
start_subroutine_keeping_symbols(st, name) ==
    [st EXCEPT
        !.subroutine_symbol_table =
            IF name \in DOMAIN @ THEN @ ELSE DictPut(@, name, EmptyDict),
        !.arg_counter = 0,
        !.var_counter = 0,
        !.if_counter = 0,
        !.while_counter = 0]

\* start_subroutine without the reset of the four counters
start_subroutine_keeping_counters(st, name) ==
    [st EXCEPT
        !.subroutine_symbol_table = DictPut(@, name, EmptyDict),
        !.cur_symbol_table =
            IF @.ref = "sub" /\ @.name = name
            THEN RefOrphan(st.subroutine_symbol_table[name])
            ELSE @]

start_subroutine(st, name) ==
    [st EXCEPT
        !.subroutine_symbol_table = DictPut(@, name, EmptyDict),
        !.cur_symbol_table =
            IF @.ref = "sub" /\ @.name = name
            THEN RefOrphan(st.subroutine_symbol_table[name])
            ELSE @,
        !.arg_counter = 0,
        !.var_counter = 0,
        !.if_counter = 0,
        !.while_counter = 0]

define(st, name, type, kind) ==
    CASE kind = "static" ->
            [st EXCEPT
                !.class_level_symbol_table =
                    DictPut(@, name, <<type, kind, st.static_counter>>),
                !.static_counter = @ + 1]
      [] kind = "field" ->
            [st EXCEPT
                !.class_level_symbol_table =
                    DictPut(@, name, <<type, kind, st.field_counter>>),
                !.field_counter = @ + 1]
      [] kind = "arg" ->
            [CurTablePut(st, name, <<type, kind, st.arg_counter>>)
                EXCEPT !.arg_counter = @ + 1]
      [] kind = "var" ->
            [CurTablePut(st, name, <<type, kind, st.var_counter>>)
                EXCEPT !.var_counter = @ + 1]
      [] OTHER -> st

CountKind(table, kind) ==
    Cardinality({n \in DOMAIN table : table[n][2] = kind})

subroutine_level_var_count(st, kind) == CountKind(CurTable(st), kind)

\* a class_level_var_count that counts the class-level symbols of any kind
class_level_var_count_of_any_kind(st, kind) ==
    Cardinality(DOMAIN st.class_level_symbol_table)

class_level_var_count(st, kind) ==
    CountKind(st.class_level_symbol_table, kind)

\* a lookup that searches the class scope before the subroutine scope
Lookup_class_scope_first(st, name, i) ==
    IF name \in DOMAIN st.class_level_symbol_table
    THEN st.class_level_symbol_table[name][i]
    ELSE IF name \in DOMAIN CurTable(st)
         THEN CurTable(st)[name][i]
         ELSE None

\* the entry kind_of / type_of / index_of read, None when the name is unknown
Lookup(st, name, i) ==
    IF name \in DOMAIN CurTable(st) THEN CurTable(st)[name][i]
    ELSE IF name \in DOMAIN st.class_level_symbol_table
         THEN st.class_level_symbol_table[name][i]
         ELSE None

kind_of(st, name) == Lookup(st, name, 2)

type_of(st, name) == Lookup(st, name, 1)

index_of(st, name) == Lookup(st, name, 3)

get_if_counter(st) == st.if_counter

get_while_counter(st) == st.while_counter

\* an increment_if_counter that leaves the counter as it is
increment_if_counter_stuck(st) == st

increment_if_counter(st) == [st EXCEPT !.if_counter = @ + 1]

increment_while_counter(st) == [st EXCEPT !.while_counter = @ + 1]

\* set_cur_level_symbol_table(name); indexing the dict with a name it does
\* not hold raises KeyError, so the call is made only for names it holds
set_cur_level_symbol_table(st, name) ==
    IF name = "class"
    THEN [st EXCEPT !.cur_symbol_table = RefClass]
    ELSE [st EXCEPT !.cur_symbol_table = RefSub(name)]

current_symbol_table_contains(st, name) == name \in DOMAIN CurTable(st)

class_level_symbol_table_contains(st, name) ==
    name \in DOMAIN st.class_level_symbol_table

-----------------------------------------------------------------------------
(* The engine's constants (CompilationEngine.py, lines 6-14) *)

UNARY_OP_DICT ==
    ("-" :> "neg") @@ ("~" :> "not") @@ ("^" :> "shiftleft") @@
    ("#" :> "shiftright")

CALL_BINARY_OP_DICT == ("*" :> "Math.multiply") @@ ("/" :> "Math.divide")

ARITHMETIC_BINARY_OP_DICT ==
    ("+" :> "add") @@ ("-" :> "sub") @@ ("&" :> "and") @@ ("|" :> "or") @@
    ("<" :> "lt") @@ (">" :> "gt") @@ ("=" :> "eq")

KEYWORD_CONSTANT == {"true", "false", "null", "this"}

VAR_DICT1 == ("var" :> "local") @@ ("arg" :> "argument")

\* a __VAR_DICT2 with the segments of fields and statics exchanged
VAR_DICT2_exchanged == ("field" :> "static") @@ ("static" :> "this")

VAR_DICT2 == ("field" :> "this") @@ ("static" :> "static")

ARGS == 2

\* the keys of __statements_dict
STATEMENTS == {"do", "let", "while", "return", "if"}

\* ord(char) for the characters the model's string constants are made of
Ord == ("a" :> 97) @@ ("b" :> 98) @@ ("c" :> 99) @@ ("d" :> 100) @@
       ("A" :> 65) @@ (" " :> 32) @@ ("/" :> 47) @@ ("*" :> 42)

-----------------------------------------------------------------------------
(* The engine works on e = [tokens, out, st, class_name]: the token list   *)
(* of its tokenizer, the instructions written so far, its symbol table and *)
(* its class name.                                                         *)
(* An operator that reads its engine more than once binds it first, as     *)
(* e \in {e0}, so that the engine it is given is evaluated once.           *)

\* JackTokenizer.next_token_tuple: self.__tokens[0]
next_token_tuple(e) == Head(e.tokens)

\* JackTokenizer.advance: self.__tokens.pop(0), as it changes the state
advance(e) == [e EXCEPT !.tokens = Tail(@)]

\* the value CompilationEngine.__advance returns: advance()[1]
advanced(e) == next_token_tuple(e)[2]

next_token_type_in(e, types_set) == next_token_tuple(e)[1] \in types_set

next_token_value_in(e, values_set) == next_token_tuple(e)[2] \in values_set

(* The VM writer: each call appends one instruction.  Numbers are written  *)
(* as their decimal text.                                                  *)
writer_push(e, segment, index) ==
    [e EXCEPT !.out = Append(@, <<"push", segment, index>>)]

writer_pop(e, segment, index) ==
    [e EXCEPT !.out = Append(@, <<"pop", segment, index>>)]

writer_arithmetic(e, command) == [e EXCEPT !.out = Append(@, <<command>>)]

writer_label(e, label) == [e EXCEPT !.out = Append(@, <<"label", label>>)]

writer_goto(e, label) == [e EXCEPT !.out = Append(@, <<"goto", label>>)]

writer_if(e, label) == [e EXCEPT !.out = Append(@, <<"if-goto", label>>)]

writer_call(e, name, n_args) ==
    [e EXCEPT !.out = Append(@, <<"call", name, Str(n_args)>>)]

writer_function(e, name, n_locals) ==
    [e EXCEPT !.out = Append(@, <<"function", name, Str(n_locals)>>)]

writer_return(e) == [e EXCEPT !.out = Append(@, <<"return">>)]

\* self.__symbol_table.define(name, type, kind)
Define(e, name, type, kind) == [e EXCEPT !.st = define(@, name, type, kind)]

-----------------------------------------------------------------------------
(* Variable access *)

write_pop_or_push(e0, name, method) ==
    CHOOSE result \in {
      (
        LET kind == kind_of(e.st, name)
        IN  IF current_symbol_table_contains(e.st, name)
            THEN IF kind \in DOMAIN VAR_DICT1
                 THEN [e EXCEPT !.out = Append(@,
                            <<method, VAR_DICT1[kind], Str(index_of(e.st, name))>>)]
                 ELSE e
            ELSE IF kind \in DOMAIN VAR_DICT2
                 THEN [e EXCEPT !.out = Append(@,
                            <<method, VAR_DICT2[kind], Str(index_of(e.st, name))>>)]
                 ELSE e
      ) : e \in {e0} } : TRUE

write_pop(e, name) == write_pop_or_push(e, name, "pop")

write_push(e, name) == write_pop_or_push(e, name, "push")

-----------------------------------------------------------------------------
(* Declarations *)

RECURSIVE VarNameLoop(_, _, _)
\* while next is ',': advance; name = advance; define(name, type, kind)
VarNameLoop(e0, type, kind) ==
    CHOOSE result \in {
      (
        IF next_token_value_in(e, {","})
        THEN LET e1 == advance(e)
             IN  VarNameLoop(Define(advance(e1), advanced(e1), type, kind),
                             type, kind)
        ELSE e
      ) : e \in {e0} } : TRUE

\* kind -> type -> name, define, the ',' loop, ';'
VarDec(e0) ==
    CHOOSE result \in {
      (
        LET kind == advanced(e)
            e1 == advance(e)
            type == advanced(e1)
            e2 == advance(e1)
            name == advanced(e2)
            e3 == Define(advance(e2), name, type, kind)
        IN  advance(VarNameLoop(e3, type, kind))
      ) : e \in {e0} } : TRUE

compile_class_var_dec(e) == VarDec(e)

compile_var_dec(e) == VarDec(e)

RECURSIVE ParameterLoop(_)
ParameterLoop(e0) ==
    CHOOSE result \in {
      (
        IF ~ next_token_value_in(e, {")"})
        THEN LET type == advanced(e)
                 e1 == advance(e)
                 name == advanced(e1)
                 e2 == Define(advance(e1), name, type, "arg")
             IN  ParameterLoop(IF next_token_value_in(e2, {","})
                               THEN advance(e2) ELSE e2)
        ELSE e
      ) : e \in {e0} } : TRUE

\* a __compile_parameter_list that defines no receiver
compile_parameter_list_without_receiver(e, ftype) == ParameterLoop(e)

compile_parameter_list(e0, ftype) ==
    CHOOSE result \in {
      (
        ParameterLoop(IF ftype = "method"
                      THEN Define(e, "this", "self", "arg") ELSE e)
      ) : e \in {e0} } : TRUE

write_pointer_update(e0, ftype) ==
    CHOOSE result \in {
      (
        IF ftype = "constructor"
        THEN LET n_args == class_level_var_count(e.st, "field")
             IN  writer_pop(
                     writer_call(writer_push(e, "constant", Str(n_args)),
                                 "Memory.alloc", 1),
                     "pointer", "0")
        ELSE IF ftype = "method"
             THEN writer_pop(writer_push(e, "argument", "0"), "pointer", "0")
             ELSE e
      ) : e \in {e0} } : TRUE

-----------------------------------------------------------------------------
(* Expressions and statements.  A method that returns a value as well as   *)
(* changing the engine yields a record: the engine in .e, the value beside *)
(* it.                                                                     *)

RECURSIVE compile_expression(_)
RECURSIVE compile_term(_)
RECURSIVE compile_expression_list(_)
RECURSIVE compile_statements(_)

\* the lookahead test of __compile_return and __compile_expression_list
StartsExpression(e0) ==
    CHOOSE result \in {
      (
        \/ next_token_type_in(e, {"integerConstant", "stringConstant",
                                  "identifier"})
        \/ next_token_value_in(e, {"("} \cup KEYWORD_CONSTANT
                                        \cup DOMAIN UNARY_OP_DICT)
      ) : e \in {e0} } : TRUE

\* a loop that appends the first character of the string only
StringLoop_first_character(e0, string) ==
    CHOOSE result \in {
      (
        IF string = ""
        THEN e
        ELSE writer_call(writer_push(e, "constant", Str(Ord[Head(string)])),
                         "String.appendChar", ARGS)
      ) : e \in {e0} } : TRUE

RECURSIVE StringLoop(_, _)
\* for char in string: push constant ord(char); call String.appendChar 2
StringLoop(e0, string) ==
    CHOOSE result \in {
      (
        IF string = ""
        THEN e
        ELSE StringLoop(
                 writer_call(writer_push(e, "constant", Str(Ord[Head(string)])),
                             "String.appendChar", ARGS),
                 Tail(string))
      ) : e \in {e0} } : TRUE

write_integer_string_keyword_constant(e0) ==
    CHOOSE result \in {
      (
        IF next_token_type_in(e, {"integerConstant"})
        THEN writer_push(advance(e), "constant", advanced(e))
        ELSE IF next_token_type_in(e, {"stringConstant"})
        THEN LET string == advanced(e)
                 e1 == writer_push(advance(e), "constant", Str(Len(string)))
             IN  StringLoop(writer_call(e1, "String.new", 1), string)
        ELSE IF next_token_value_in(e, KEYWORD_CONSTANT)
        THEN LET keyword_constant == advanced(e)
                 e1 == advance(e)
             IN  IF keyword_constant = "this"
                 THEN writer_push(e1, "pointer", "0")
                 ELSE IF keyword_constant = "true"
                      THEN writer_arithmetic(writer_push(e1, "constant", "0"),
                                             "not")
                      ELSE writer_push(e1, "constant", "0")
        ELSE e
      ) : e \in {e0} } : TRUE

\* a __write_precise_subroutine_name that takes every first identifier for
\* a class name
write_precise_subroutine_name_as_class(e0, name) ==
    CHOOSE result \in {
      (
        [e |-> advance(advance(e)),
         precise_name |-> Dotted(name, advanced(advance(e))),
         n_args |-> 0]
      ) : e \in {e0} } : TRUE

\* a __write_precise_subroutine_name that takes every first identifier for
\* a variable
write_precise_subroutine_name_as_variable(e0, name) ==
    CHOOSE result \in {
      (
        [e |-> write_push(advance(advance(e)), name),
         precise_name |-> Dotted(type_of(e.st, name), advanced(advance(e))),
         n_args |-> 1]
      ) : e \in {e0} } : TRUE

\* '.' -> subroutine name; the receiver push and the call's class prefix
write_precise_subroutine_name(e, name) ==
    LET e1 == advance(e)
        sub_name == advanced(e1)
        e2 == advance(e1)
    IN  IF \/ current_symbol_table_contains(e2.st, name)
           \/ class_level_symbol_table_contains(e2.st, name)
        THEN [e |-> write_push(e2, name),
              precise_name |-> Dotted(type_of(e2.st, name), sub_name),
              n_args |-> 1]
        ELSE [e |-> e2,
              precise_name |-> Dotted(name, sub_name),
              n_args |-> 0]

\* n_args += the list's count; write_call; ')'   (lines 335-338)
CallEnd(l0, precise_name, n_args) ==
    CHOOSE result \in {
      (
        advance(writer_call(l.e, precise_name, n_args + l.n))
      ) : l \in {l0} } : TRUE

\* '(' -> expression list -> write_call -> ')'   (lines 334-338)
CallTail(e, precise_name, n_args) ==
    CallEnd(compile_expression_list(advance(e)), precise_name, n_args)

\* a __compile_subroutine_call that passes no receiver to an unqualified call
compile_subroutine_call_without_receiver(e0) ==
    CHOOSE result \in {
      (
        IF next_token_value_in(advance(e), {"."})
        THEN CallTail(write_precise_subroutine_name(advance(e), advanced(e)).e,
                      write_precise_subroutine_name(advance(e), advanced(e))
                          .precise_name,
                      write_precise_subroutine_name(advance(e), advanced(e))
                          .n_args)
        ELSE CallTail(advance(e), Dotted(e.class_name, advanced(e)), 0)
      ) : e \in {e0} } : TRUE

compile_subroutine_call(e0) ==
    CHOOSE result \in {
      (
        LET name == advanced(e)
            e1 == advance(e)
        IN  IF next_token_value_in(e1, {"."})
            THEN LET p == write_precise_subroutine_name(e1, name)
                 IN  CallTail(p.e, p.precise_name, p.n_args)
            ELSE CallTail(writer_push(e1, "pointer", "0"),
                          Dotted(e.class_name, name), 1)
      ) : e \in {e0} } : TRUE

\* returns the engine in .e and is_array in .is_array
write_left_square_bracket(e0, name) ==
    CHOOSE result \in {
      (
        IF next_token_value_in(e, {"["})
        THEN LET e1 == advance(compile_expression(advance(e)))
             IN  [e |-> writer_arithmetic(write_push(e1, name), "add"),
                  is_array |-> TRUE]
        ELSE [e |-> e, is_array |-> FALSE]
      ) : e \in {e0} } : TRUE

\* n_args += the list's count; ')'; write_call   (lines 415-418, 429-432)
TermCallEnd(l0, precise_name, n_args) ==
    CHOOSE result \in {
      (
        writer_call(advance(l.e), precise_name, n_args + l.n)
      ) : l \in {l0} } : TRUE

write_period_and_array_end(e0, is_array, name) ==
    CHOOSE result \in {
      (
        IF next_token_value_in(e, {"."})
        THEN LET p == write_precise_subroutine_name(e, name)
             IN  TermCallEnd(compile_expression_list(advance(p.e)),
                             p.precise_name, p.n_args)
        ELSE IF is_array
             THEN writer_push(writer_pop(e, "pointer", "1"), "that", "0")
             ELSE write_push(e, name)
      ) : e \in {e0} } : TRUE

\* lines 410-421, b the result of __write_left_square_bracket
IdentifierTermEnd(b0, name) ==
    CHOOSE result \in {
      (
        IF next_token_value_in(b.e, {"("})
        THEN TermCallEnd(
                 compile_expression_list(
                     advance(writer_push(b.e, "pointer", "0"))),
                 Dotted(b.e.class_name, name), 1)
        ELSE write_period_and_array_end(b.e, b.is_array, name)
      ) : b \in {b0} } : TRUE

write_identifier_term(e0) ==
    CHOOSE result \in {
      (
        IdentifierTermEnd(write_left_square_bracket(advance(e), advanced(e)),
                          advanced(e))
      ) : e \in {e0} } : TRUE

compile_term(e0) ==
    CHOOSE result \in {
      (
        IF \/ next_token_type_in(e, {"integerConstant", "stringConstant"})
           \/ next_token_value_in(e, KEYWORD_CONSTANT)
        THEN write_integer_string_keyword_constant(e)
        ELSE IF next_token_type_in(e, {"identifier"})
        THEN write_identifier_term(e)
        ELSE IF next_token_value_in(e, DOMAIN UNARY_OP_DICT)
        THEN LET op == advanced(e)
             IN  writer_arithmetic(compile_term(advance(e)), UNARY_OP_DICT[op])
        ELSE IF next_token_value_in(e, {"("})
        THEN advance(compile_expression(advance(e)))
        ELSE e
      ) : e \in {e0} } : TRUE

\* the instruction of a binary operator, after its right-hand term
\* (lines 268-274)
WriteBinaryOp(e0, op) ==
    CHOOSE result \in {
      (
        IF op \in DOMAIN CALL_BINARY_OP_DICT
        THEN writer_call(e, CALL_BINARY_OP_DICT[op], ARGS)
        ELSE IF op \in DOMAIN ARITHMETIC_BINARY_OP_DICT
             THEN writer_arithmetic(e, ARITHMETIC_BINARY_OP_DICT[op])
             ELSE e
      ) : e \in {e0} } : TRUE

RECURSIVE ExpressionLoop(_)
\* while next is a binary operator: op = advance; term; the op's instruction
ExpressionLoop(e0) ==
    CHOOSE result \in {
      (
        IF next_token_value_in(e, DOMAIN CALL_BINARY_OP_DICT
                                    \cup DOMAIN ARITHMETIC_BINARY_OP_DICT)
        THEN ExpressionLoop(WriteBinaryOp(compile_term(advance(e)), advanced(e)))
        ELSE e
      ) : e \in {e0} } : TRUE

compile_expression(e) == ExpressionLoop(compile_term(e))

RECURSIVE ExpressionListLoop(_, _)
\* while next is ',': advance; expression; args_counter += 1
ExpressionListLoop(e0, args_counter) ==
    CHOOSE result \in {
      (
        IF next_token_value_in(e, {","})
        THEN ExpressionListLoop(compile_expression(advance(e)), args_counter + 1)
        ELSE [e |-> e, n |-> args_counter]
      ) : e \in {e0} } : TRUE

\* a __compile_expression_list that does not count its first expression
compile_expression_list_uncounted(e) ==
    IF StartsExpression(e)
    THEN ExpressionListLoop(compile_expression(e), 0)
    ELSE ExpressionListLoop(e, 0)

compile_expression_list(e0) ==
    CHOOSE result \in {
      (
        IF StartsExpression(e)
        THEN ExpressionListLoop(compile_expression(e), 1)
        ELSE ExpressionListLoop(e, 0)
      ) : e \in {e0} } : TRUE

\* a __compile_do that keeps the value the call returns
compile_do_keeping_value(e) == advance(compile_subroutine_call(advance(e)))

compile_do(e) ==
    advance(writer_pop(compile_subroutine_call(advance(e)), "temp", "0"))

\* a store into an array element that does not save the value in temp 0
LetStore_without_temp(e, is_array, name) ==
    advance(
        IF is_array
        THEN writer_pop(writer_pop(e, "pointer", "1"), "that", "0")
        ELSE write_pop(e, name))

\* lines 164-172: the store, then ;
LetStore(e0, is_array, name) ==
    CHOOSE result \in {
      (
        advance(
            IF is_array
            THEN writer_pop(
                     writer_push(
                         writer_pop(writer_pop(e, "temp", "0"), "pointer", "1"),
                         "temp", "0"),
                     "that", "0")
            ELSE write_pop(e, name))
      ) : e \in {e0} } : TRUE

\* lines 161-163: = -> expression, b the result of
\* __write_left_square_bracket
LetValue(b0, name) ==
    CHOOSE result \in {
      (
        LetStore(compile_expression(advance(b.e)), b.is_array, name)
      ) : b \in {b0} } : TRUE

compile_let(e0) ==
    CHOOSE result \in {
      (
        LetValue(write_left_square_bracket(advance(advance(e)),
                                           advanced(advance(e))),
                 advanced(advance(e)))
      ) : e \in {e0} } : TRUE

WhileStartLabel(while_counter) == "WHILE_START" \o Str(while_counter)

WhileEndLabel(while_counter) == "WHILE_END" \o Str(while_counter)

\* a __compile_while that branches on the condition itself, not negated
compile_while_without_not(e0) ==
    CHOOSE result \in {
      (
        LET while_counter == get_while_counter(e.st)
            e1 == [e EXCEPT !.st = increment_while_counter(@)]
            e2 == writer_label(e1, WhileStartLabel(while_counter))
            e3 == compile_expression(advance(advance(e2)))
            e4 == writer_if(e3, WhileEndLabel(while_counter))
            e5 == compile_statements(advance(advance(e4)))
        IN  advance(writer_label(writer_goto(e5, WhileStartLabel(while_counter)),
                                 WhileEndLabel(while_counter)))
      ) : e \in {e0} } : TRUE

compile_while(e0) ==
    CHOOSE result \in {
      (
        LET while_counter == get_while_counter(e.st)
            e1 == [e EXCEPT !.st = increment_while_counter(@)]
            start_label == WhileStartLabel(while_counter)
            end_label == WhileEndLabel(while_counter)
            e2 == writer_label(e1, start_label)
            e3 == compile_expression(advance(advance(e2)))
            e4 == writer_if(writer_arithmetic(e3, "not"), end_label)
            e5 == compile_statements(advance(advance(e4)))
        IN  advance(writer_label(writer_goto(e5, start_label), end_label))
      ) : e \in {e0} } : TRUE

RECURSIVE ReturnLoop(_, _)
\* while the lookahead starts an expression: compile it
ReturnLoop(e0, redundant_return) ==
    CHOOSE result \in {
      (
        IF StartsExpression(e)
        THEN ReturnLoop(compile_expression(e), FALSE)
        ELSE [e |-> e, redundant_return |-> redundant_return]
      ) : e \in {e0} } : TRUE

\* lines 212-216
ReturnEnd(r0) ==
    CHOOSE result \in {
      (
        advance(writer_return(IF r.redundant_return
                              THEN writer_push(r.e, "constant", "0")
                              ELSE r.e))
      ) : r \in {r0} } : TRUE

\* a __compile_return that pushes constant 0 before every return
compile_return_always_pushing(e) ==
    ReturnEnd([e |-> ReturnLoop(advance(e), TRUE).e,
               redundant_return |-> TRUE])

compile_return(e) == ReturnEnd(ReturnLoop(advance(e), TRUE))

IfTrueLabel(if_counter) == "IF_START" \o Str(if_counter)

IfFalseLabel(if_counter) == "ELSE" \o Str(if_counter)

IfEndLabel(if_counter) == "IF_END" \o Str(if_counter)

\* a __write_if_else that places IF_ENDN also when there is no else clause
write_if_else_always_end(e0, if_counter, if_false_label) ==
    CHOOSE result \in {
      (
        IF next_token_value_in(e, {"else"})
        THEN writer_label(
                 advance(compile_statements(advance(advance(
                     writer_label(writer_goto(e, IfEndLabel(if_counter)),
                                  if_false_label))))),
                 IfEndLabel(if_counter))
        ELSE writer_label(writer_label(e, if_false_label),
                          IfEndLabel(if_counter))
      ) : e \in {e0} } : TRUE

write_if_else(e0, if_counter, if_false_label) ==
    CHOOSE result \in {
      (
        LET if_end_label == IfEndLabel(if_counter)
        IN  IF next_token_value_in(e, {"else"})
            THEN LET e1 == writer_label(writer_goto(e, if_end_label),
                                        if_false_label)
                     e2 == compile_statements(advance(advance(e1)))
                 IN  writer_label(advance(e2), if_end_label)
            ELSE writer_label(e, if_false_label)
      ) : e \in {e0} } : TRUE

\* lines 228-240, e the engine after the condition and its )
IfBranches(e0) ==
    CHOOSE result \in {
      (
        LET if_counter == get_if_counter(e.st)
            e2 == [e EXCEPT !.st = increment_if_counter(@)]
            if_true_label == IfTrueLabel(if_counter)
            if_false_label == IfFalseLabel(if_counter)
            e3 == writer_label(
                      writer_goto(writer_if(e2, if_true_label), if_false_label),
                      if_true_label)
        IN  write_if_else(advance(compile_statements(advance(e3))),
                          if_counter, if_false_label)
      ) : e \in {e0} } : TRUE

compile_if(e) ==
    IfBranches(advance(compile_expression(advance(advance(e)))))

\* self.__statements_dict[next_token_value]()
Dispatch(e0) ==
    CHOOSE result \in {
      (
        LET next_token_value == next_token_tuple(e)[2]
        IN  CASE next_token_value = "do" -> compile_do(e)
              [] next_token_value = "let" -> compile_let(e)
              [] next_token_value = "while" -> compile_while(e)
              [] next_token_value = "return" -> compile_return(e)
              [] next_token_value = "if" -> compile_if(e)
      ) : e \in {e0} } : TRUE

compile_statements(e0) ==
    CHOOSE result \in {
      (
        IF next_token_value_in(e, STATEMENTS)
        THEN compile_statements(Dispatch(e))
        ELSE e
      ) : e \in {e0} } : TRUE

-----------------------------------------------------------------------------
(* The input: grammatical classes, as the token lists the tokenizer holds  *)
(* after construction.                                                     *)

MaxFields == 2        \* field declarations of a class: 0..MaxFields
MaxArgs == 2          \* expressions in a call's expression list: 0..MaxArgs
MaxStrLen == 2        \* characters of a string constant: 0..MaxStrLen
MaxDepth == 2         \* nesting depth of if / while statements
MaxSubroutines == 2   \* subroutines of a class with several subroutines

\* the tokenizer's replacement of the symbols < > &
XML_DICT == ("<" :> "&lt;") @@ (">" :> "&gt;") @@ ("&" :> "&amp;")

\* the tokens __type_and_value makes of a word
KW(v) == <<"keyword", v>>
SY(v) == <<"symbol", IF v \in DOMAIN XML_DICT THEN XML_DICT[v] ELSE v>>
IC(v) == <<"integerConstant", v>>
SC(v) == <<"stringConstant", v>>
ID(v) == <<"identifier", v>>

\* name (',' name)*
RECURSIVE NameList(_)
NameList(names) ==
    IF Len(names) = 1 THEN <<ID(names[1])>>
    ELSE <<ID(names[1]), SY(",")>> \o NameList(Tail(names))

IntFieldNames == <<"x", "y", "z", "w", "v">>

\* k field declarations: field Bar foo ; field int x , y ... ;
FieldPart(k) ==
    IF k = 0 THEN <<>>
    ELSE <<KW("field"), ID("Bar"), ID("foo"), SY(";")>> \o
         (IF k = 1 THEN <<>>
          ELSE <<KW("field"), KW("int")>> \o
               NameList(SubSeq(IntFieldNames, 1, k - 1)) \o <<SY(";")>>)

StaticParts ==
    { <<>>,
      <<KW("static"), ID("Bar"), ID("s"), SY(","), ID("t"), SY(";")>> }

ClassVarDecs == { sp \o FieldPart(k) : sp \in StaticParts, k \in 0..MaxFields }

Kinds == {"constructor", "method", "function"}

\* parameter lists and var declarations, with the names they declare
ParamLists ==
    { [toks |-> <<>>, names |-> {}],
      [toks |-> <<KW("int"), ID("x")>>, names |-> {"x"}],
      [toks |-> <<ID("Bar"), ID("foo"), SY(","), KW("int"), ID("y")>>,
       names |-> {"foo", "y"}] }

LocalDecs ==
    { [toks |-> <<>>, names |-> {}],
      [toks |-> <<KW("var"), ID("Bar"), ID("foo"), SY(";")>>,
       names |-> {"foo"}],
      [toks |-> <<KW("var"), KW("int"), ID("y"), SY(","), ID("x"), SY(";"),
                  KW("var"), ID("Bar"), ID("s"), SY(";")>>,
       names |-> {"y", "x", "s"}] }

Subroutine(kind, name, params, locals, body) ==
    <<KW(kind), IF kind = "constructor" THEN ID("Main") ELSE KW("void"),
      ID(name), SY("(")>> \o params \o <<SY(")"), SY("{")>> \o locals \o
    body \o <<SY("}")>>

Class(cvd, subroutines) ==
    <<KW("class"), ID("Main"), SY("{")>> \o cvd \o subroutines \o <<SY("}")>>

\* expression lists of 0..MaxArgs expressions: 1 , x , y , 2 ...
ArgExprs == << <<IC("1")>>, <<ID("x")>>, <<ID("y")>>, <<IC("2")>> >>

RECURSIVE ArgList(_)
ArgList(n) ==
    IF n = 0 THEN <<>>
    ELSE IF n = 1 THEN ArgExprs[1]
    ELSE ArgList(n - 1) \o <<SY(",")>> \o ArgExprs[((n - 1) % 4) + 1]

ArgLists == { ArgList(n) : n \in 0..MaxArgs }

\* string constants of 0..MaxStrLen characters
StringOf(n) == SubSeq("ab/*cd A", 1, n)

Strings == { StringOf(n) : n \in 0..MaxStrLen }

Let(name, expression) ==
    <<KW("let"), ID(name), SY("=")>> \o expression \o <<SY(";")>>

Do(call) == <<KW("do")>> \o call \o <<SY(";")>>

\* the term  name [ index ]
ArrayRead(name, index) == <<ID(name), SY("[")>> \o index \o <<SY("]")>>

\* let name [ index ] = expression ;
LetArray(name, index, expression) ==
    <<KW("let")>> \o ArrayRead(name, index) \o <<SY("=")>> \o expression \o
    <<SY(";")>>

\* array assignments, as [a, i, e]: a constant, an array read, a nested
\* array read and an array read in the index
ArrayLets ==
    { [a |-> "foo", i |-> <<ID("x")>>, e |-> <<IC("1")>>],
      [a |-> "foo", i |-> <<ID("x"), SY("+"), IC("1")>>,
       e |-> ArrayRead("foo", <<ID("y")>>)],
      [a |-> "s", i |-> <<ID("y")>>,
       e |-> ArrayRead("foo", ArrayRead("s", <<ID("x")>>)) \o
             <<SY("+"), IC("1")>>],
      [a |-> "y", i |-> ArrayRead("foo", <<ID("x")>>),
       e |-> ArrayRead("foo", <<ID("x")>>)] }

QualifiedCall(x, m, args) ==
    <<ID(x), SY("."), ID(m), SY("(")>> \o args \o <<SY(")")>>

UnqualifiedCall(m, args) == <<ID(m), SY("(")>> \o args \o <<SY(")")>>

While(condition, body) ==
    <<KW("while"), SY("(")>> \o condition \o <<SY(")"), SY("{")>> \o body \o
    <<SY("}")>>

If(condition, body) ==
    <<KW("if"), SY("(")>> \o condition \o <<SY(")"), SY("{")>> \o body \o
    <<SY("}")>>

IfElse(condition, body, else_body) ==
    If(condition, body) \o <<KW("else"), SY("{")>> \o else_body \o <<SY("}")>>

Return(expression) == <<KW("return")>> \o expression \o <<SY(";")>>

\* the expressions of the return statements: none, x, x + 1, this, -(x * y)
ReturnExprs ==
    { <<>>,
      <<ID("x")>>,
      <<ID("x"), SY("+"), IC("1")>>,
      <<KW("this")>>,
      <<SY("-"), SY("("), ID("x"), SY("*"), ID("y"), SY(")")>> }

Leaf == Let("y", <<IC("1")>>)

Cond == <<ID("x")>>

CondEq == <<SY("~"), SY("("), ID("x"), SY("="), ID("y"), SY(")")>>

\* the statements of a body that is one simple statement
SimpleStatements ==
    { Do(QualifiedCall(x, "bar", args)) :
            x \in {"foo", "s", "Out"}, args \in ArgLists } \cup
    { Let("y", QualifiedCall(x, "bar", args)) :
            x \in {"foo", "Out"}, args \in ArgLists } \cup
    { Do(UnqualifiedCall("bar", args)) : args \in ArgLists } \cup
    { Let("y", UnqualifiedCall("bar", args)) : args \in ArgLists } \cup
    { Let("y", <<SC(str)>>) : str \in Strings } \cup
    { Do(QualifiedCall("Out", "print", <<SC(str)>>)) : str \in Strings } \cup
    { Let("x", <<ID("x"), SY("+"), ID("foo")>>),
      Let("foo", <<SY("-"), ID("y"), SY("*"), IC("2")>>),
      Let("y", <<KW("true")>>),
      Do(UnqualifiedCall("bar", QualifiedCall("foo", "get", <<>>))),
      While(Cond, Leaf),
      While(CondEq, Leaf \o Let("x", <<ID("x"), SY("+"), IC("1")>>)),
      <<KW("return"), SY(";")>>,
      <<KW("return"), ID("x"), SY(";")>> } \cup
    { Return(e) : e \in ReturnExprs } \cup
    { Let("s", <<ID("foo")>>),
      Let("x", <<ID("y")>>),
      Do(UnqualifiedCall("run", <<>>)),
      Do(QualifiedCall("Main", "run", <<ID("x")>>)),
      IfElse(Cond, Return(<<ID("x")>>), While(Cond, Return(<<>>))) } \cup
    { LetArray(l.a, l.i, l.e) : l \in ArrayLets }

\* blocks of if / while statements nested to depth d
RECURSIVE Blocks(_)
Blocks(d) ==
    IF d = 0 THEN {Leaf}
    ELSE {Leaf} \cup UNION {
            { While(Cond, b), If(Cond, b), IfElse(Cond, b, Leaf),
              IfElse(Cond, Leaf, b), b \o While(Cond, Leaf),
              b \o If(Cond, Leaf) } : b \in Blocks(d - 1) }

\* parameters and locals of one subroutine declare no name twice
Declarations ==
    { d \in ParamLists \X LocalDecs : d[1].names \cap d[2].names = {} }

\* one subroutine whose body is one simple statement, in every context
SimplePrograms ==
    { Class(cvd, Subroutine(kind, "run", d[1].toks, d[2].toks, body)) :
        cvd \in ClassVarDecs, kind \in Kinds, d \in Declarations,
        body \in SimpleStatements }

\* one subroutine whose body is a block of nested if / while statements
ControlPrograms ==
    { Class(FieldPart(2),
            Subroutine(kind, "run", <<>>,
                       <<KW("var"), KW("int"), ID("y"), SY(";")>>, body)) :
        kind \in Kinds, body \in Blocks(MaxDepth) }

\* subroutines that leave every counter of the symbol table non-zero
SampleSubroutines ==
    { Subroutine("method", "run",
          <<KW("int"), ID("a"), SY(","), KW("int"), ID("b")>>,
          <<KW("var"), KW("int"), ID("y"), SY(","), ID("z"), SY(";")>>,
          While(Cond, If(Cond, Leaf)) \o If(Cond, Leaf) \o
          While(Cond, Leaf) \o <<KW("return"), SY(";")>>),
      Subroutine("function", "f",
          <<KW("int"), ID("a")>>,
          <<KW("var"), KW("int"), ID("y"), SY(";")>>,
          If(Cond, Leaf) \o While(Cond, Leaf) \o
          <<KW("return"), ID("y"), SY(";")>>),
      Subroutine("constructor", "new", <<>>, <<>>,
          <<KW("return"), KW("this"), SY(";")>>) }

RECURSIVE SubroutineLists(_)
SubroutineLists(n) ==
    IF n = 0 THEN {<<>>}
    ELSE { l \o sub : l \in SubroutineLists(n - 1), sub \in SampleSubroutines }

\* classes of 2..MaxSubroutines subroutines
MultiPrograms ==
    { Class(FieldPart(2), subs) :
        subs \in UNION { SubroutineLists(n) : n \in 2..MaxSubroutines } }

Programs == SimplePrograms \cup ControlPrograms \cup MultiPrograms

\* the binary operators of the grammar (op)
BinaryOperators == {"+", "-", "*", "/", "&", "|", "<", ">", "="}

RECURSIVE Expression(_, _)
\* term (op term)* as the tokenizer delivers it, the operators as symbols
Expression(terms, ops) ==
    IF ops = <<>> THEN terms[1]
    ELSE terms[1] \o <<SY(ops[1])>> \o Expression(Tail(terms), Tail(ops))

\* expressions as [terms, ops]: x op y for every operator, and chains
OperatorExprs ==
    { [terms |-> << <<ID("x")>>, <<ID("y")>> >>, ops |-> <<op>>] :
          op \in BinaryOperators } \cup
    { [terms |-> << <<ID("x")>>, <<ID("y")>>, <<IC("2")>> >>,
       ops |-> <<"+", "*">>],
      [terms |-> << <<IC("1")>>, <<ID("x")>>, <<ID("y")>> >>,
       ops |-> <<"-", "-">>],
      [terms |-> << <<ID("x")>>,
                    <<SY("("), ID("y"), SY("/"), IC("2"), SY(")")>>,
                    <<SY("-"), ID("x")>> >>,
       ops |-> <<"|", "=">>],
      [terms |-> << <<ID("x")>>, <<ID("y")>>, <<IC("1")>> >>,
       ops |-> <<"<", "+">>] }

\* one subroutine whose body is  let x = <expression>;  in every context
OperatorPrograms ==
    { Class(cvd, Subroutine(kind, "run", d[1].toks, d[2].toks,
                            Let("x", Expression(ex.terms, ex.ops)))) :
        cvd \in ClassVarDecs, kind \in Kinds, d \in Declarations,
        ex \in OperatorExprs }

-----------------------------------------------------------------------------
(* The engine as a state machine: compile_class, with its position pc at   *)
(* the loop heads of compile_class and at the calls __compile_subroutine   *)
(* and __compile_subroutine_body make in sequence.                         *)

Engine ==
    [tokens |-> tokens, out |-> out, st |-> symbol_table,
     class_name |-> class_name]

\* the engine's state after a step; the history records what was consumed
Becomes(e) ==
    \E r \in {e} :
        /\ tokens' = r.tokens
        /\ out' = r.out
        /\ symbol_table' = r.st
        /\ class_name' = r.class_name
        /\ consumed' =
               consumed \o SubSeq(tokens, 1, Len(tokens) - Len(r.tokens))
        /\ calls' = calls
        /\ UNCHANGED <<input_file_str, scan_idx, cur_idx, comment_free_str>>

Init ==
    /\ tokens \in Programs
    /\ out = <<>>
    /\ symbol_table = SymbolTableInit
    /\ class_name = ""
    /\ function_type = ""
    /\ cur_name = ""
    /\ pc = "compile_class"
    /\ consumed = <<>>
    /\ calls = 0
    /\ input_file_str = <<>>
    /\ scan_idx = 0
    /\ cur_idx = 0
    /\ comment_free_str = <<>>

\* compile_class, lines 40-44: class -> class name -> {
CompileClassBegin ==
    /\ pc = "compile_class"
    /\ LET e1 == advance(Engine)
       IN  Becomes(advance(advance([e1 EXCEPT !.class_name = advanced(e1)])))
    /\ pc' = "class_var_decs"
    /\ UNCHANGED <<function_type, cur_name>>

\* compile_class, lines 45-46: one round of the first loop
CompileClassVarDec ==
    /\ pc = "class_var_decs"
    /\ next_token_value_in(Engine, {"static", "field"})
    /\ Becomes(compile_class_var_dec(Engine))
    /\ UNCHANGED <<function_type, cur_name, pc>>

\* the first loop of compile_class is over
InSubroutineLoop ==
    \/ pc = "subroutines"
    \/ pc = "class_var_decs" /\ ~ next_token_value_in(Engine, {"static", "field"})

\* __compile_subroutine, lines 79-88: constructor|function|method -> type
\* -> name; start_subroutine and set_cur_level_symbol_table
CompileSubroutine ==
    /\ InSubroutineLoop
    /\ next_token_value_in(Engine, {"constructor", "method", "function"})
    /\ LET e1 == advance(advance(Engine))
           sub_name == advanced(e1)
           name == Dotted(class_name, sub_name)
       IN  /\ function_type' = advanced(Engine)
           /\ cur_name' = name
           /\ Becomes([advance(e1) EXCEPT !.st =
                  set_cur_level_symbol_table(start_subroutine(@, name), name)])
    /\ pc' = "parameter_list"

\* __compile_subroutine, lines 90-93: ( -> parameter list -> )
CompileParameterList ==
    /\ pc = "parameter_list"
    /\ Becomes(advance(compile_parameter_list(advance(Engine), function_type)))
    /\ pc' = "subroutine_body"
    /\ UNCHANGED <<function_type, cur_name>>

RECURSIVE VarDecLoop(_)
\* while next is 'var': compile_var_dec
VarDecLoop(e) ==
    IF next_token_value_in(e, {"var"}) THEN VarDecLoop(compile_var_dec(e))
    ELSE e

\* a body that writes its function instruction before its var declarations
SubroutineBodyBegin_before_var_decs(e, ftype, name) ==
    LET e1 == advance(e)
        n_locals == subroutine_level_var_count(e1.st, "var")
    IN  write_pointer_update(VarDecLoop(writer_function(e1, name, n_locals)),
                             ftype)

\* __compile_subroutine_body, lines 358-363, up to the statements
SubroutineBodyBegin(e, ftype, name) ==
    LET e1 == VarDecLoop(advance(e))
        n_locals == subroutine_level_var_count(e1.st, "var")
    IN  write_pointer_update(writer_function(e1, name, n_locals), ftype)

CompileSubroutineBody ==
    /\ pc = "subroutine_body"
    /\ Becomes(SubroutineBodyBegin(Engine, function_type, cur_name))
    /\ pc' = "statements"
    /\ UNCHANGED <<function_type, cur_name>>

\* __compile_statements (line 364): one round of its loop, a whole statement
CompileStatement ==
    /\ pc = "statements"
    /\ next_token_value_in(Engine, STATEMENTS)
    /\ Becomes(Dispatch(Engine))
    /\ UNCHANGED <<function_type, cur_name, pc>>

\* an end of __compile_subroutine_body that leaves the } in the token list
SubroutineBodyEnd_leaving_brace(e) ==
    [e EXCEPT !.st = set_cur_level_symbol_table(@, "class")]

\* __compile_subroutine_body, lines 365-368: } and back to the class scope
SubroutineBodyEnd(e) ==
    [advance(e) EXCEPT !.st = set_cur_level_symbol_table(@, "class")]

CompileSubroutineEnd ==
    /\ pc = "statements"
    /\ ~ next_token_value_in(Engine, STATEMENTS)
    /\ Becomes(SubroutineBodyEnd(Engine))
    /\ pc' = "subroutines"
    /\ UNCHANGED <<function_type, cur_name>>

\* compile_class, line 50: the closing }
CompileClassEnd ==
    /\ InSubroutineLoop
    /\ ~ next_token_value_in(Engine, {"constructor", "method", "function"})
    /\ Becomes(advance(Engine))
    /\ pc' = "done"
    /\ UNCHANGED <<function_type, cur_name>>

Next ==
    \/ CompileClassBegin
    \/ CompileClassVarDec
    \/ CompileSubroutine
    \/ CompileParameterList
    \/ CompileSubroutineBody
    \/ CompileStatement
    \/ CompileSubroutineEnd
    \/ CompileClassEnd

Spec == Init /\ [][Next]_vars

\* compile_class runs on: a step that can be taken is taken
FairSpec == Spec /\ WF_vars(Next)

\* compile_class on the classes of OperatorPrograms
OperatorInit ==
    /\ tokens \in OperatorPrograms
    /\ out = <<>>
    /\ symbol_table = SymbolTableInit
    /\ class_name = ""
    /\ function_type = ""
    /\ cur_name = ""
    /\ pc = "compile_class"
    /\ consumed = <<>>
    /\ calls = 0
    /\ input_file_str = <<>>
    /\ scan_idx = 0
    /\ cur_idx = 0
    /\ comment_free_str = <<>>

OperatorSpec == OperatorInit /\ [][Next]_vars

-----------------------------------------------------------------------------
(* The tokenizer (src/JackToXML/JackTokenizer.py).  A text is a sequence   *)
(* of characters, each a one-character string.  A regular expression is    *)
(* the operator that gives the length re.match matches at the start of a   *)
(* text, 0 when it does not match (no expression here matches the empty    *)
(* text).                                                                  *)

MaxSourceLen == 3     \* characters of a source text

Digits == {"0", "1", "2", "3", "4", "5", "6", "7", "8", "9"}

Letters ==
    {"a", "b", "c", "d", "e", "f", "g", "h", "i", "j", "k", "l", "m", "n",
     "o", "p", "q", "r", "s", "t", "u", "v", "w", "x", "y", "z",
     "A", "B", "C", "D", "E", "F", "G", "H", "I", "J", "K", "L", "M", "N",
     "O", "P", "Q", "R", "S", "T", "U", "V", "W", "X", "Y", "Z"}

\* the characters \w matches
WordCharacters == Digits \cup Letters \cup {"_"}

KEYWORDS ==
    { <<"c", "l", "a", "s", "s">>,
      <<"c", "o", "n", "s", "t", "r", "u", "c", "t", "o", "r">>,
      <<"f", "u", "n", "c", "t", "i", "o", "n">>,
      <<"m", "e", "t", "h", "o", "d">>,
      <<"f", "i", "e", "l", "d">>,
      <<"s", "t", "a", "t", "i", "c">>,
      <<"v", "a", "r">>,
      <<"i", "n", "t">>,
      <<"c", "h", "a", "r">>,
      <<"b", "o", "o", "l", "e", "a", "n">>,
      <<"v", "o", "i", "d">>,
      <<"t", "r", "u", "e">>,
      <<"f", "a", "l", "s", "e">>,
      <<"n", "u", "l", "l">>,
      <<"t", "h", "i", "s">>,
      <<"l", "e", "t">>,
      <<"d", "o">>,
      <<"i", "f">>,
      <<"e", "l", "s", "e">>,
      <<"w", "h", "i", "l", "e">>,
      <<"r", "e", "t", "u", "r", "n">> }

SYMBOLS ==
    {"{", "}", "(", ")", "[", "]", ".", ",", ";", "+", "-", "*", "/", "&",
     "<", ">", "=", "~", "|", "^", "#"}

\* "".join(text): the str of a sequence of characters
RECURSIVE Text(_)
Text(text) == IF text = <<>> THEN "" ELSE text[1] \o Text(Tail(text))

\* the length of the longest prefix of a text made of the given characters
RECURSIVE Run(_, _)
Run(text, characters) ==
    IF text # <<>> /\ text[1] \in characters
    THEN 1 + Run(Tail(text), characters)
    ELSE 0

\* the length of the longest prefix of a text without the given characters
RECURSIVE RunWithout(_, _)
RunWithout(text, characters) ==
    IF text # <<>> /\ text[1] \notin characters
    THEN 1 + RunWithout(Tail(text), characters)
    ELSE 0

\* \d+
INTEGER_RE(text) == Run(text, Digits)

\* "[^"\n]*"
STRING_RE(text) ==
    IF text # <<>> /\ text[1] = "\""
    THEN LET n == RunWithout(Tail(text), {"\"", "\n"})
         IN  IF Len(text) >= n + 2 /\ text[n + 2] = "\"" THEN n + 2 ELSE 0
    ELSE 0

\* [\w]+
IDENTIFIER_RE(text) == Run(text, WordCharacters)

\* the keywords k for which k(?!\w) matches at the start of the text; no
\* two do, so the order of the alternatives does not matter
KeywordsAt(text) ==
    { k \in KEYWORDS :
        /\ Len(text) >= Len(k)
        /\ SubSeq(text, 1, Len(k)) = k
        /\ Len(text) > Len(k) => text[Len(k) + 1] \notin WordCharacters }

\* k1(?!\w)|k2(?!\w)|...
KEYWORD_RE(text) ==
    IF KeywordsAt(text) = {} THEN 0
    ELSE Len(CHOOSE k \in KeywordsAt(text) : TRUE)

\* the character class of the symbols (the | that joins them is one of them)
SYMBOL_RE(text) == IF text # <<>> /\ text[1] \in SYMBOLS THEN 1 ELSE 0

\* the alternation: the first alternative that matches, in its order
PATTERN(text) ==
    IF KEYWORD_RE(text) > 0 THEN KEYWORD_RE(text)
    ELSE IF SYMBOL_RE(text) > 0 THEN SYMBOL_RE(text)
    ELSE IF INTEGER_RE(text) > 0 THEN INTEGER_RE(text)
    ELSE IF STRING_RE(text) > 0 THEN STRING_RE(text)
    ELSE IDENTIFIER_RE(text)

\* __word_matches_pattern, given what re.match(pattern, word) matched
word_matches_pattern(matched) == matched > 0

\* __type_and_value(word), lines 155-168
type_and_value(word) ==
    IF word_matches_pattern(INTEGER_RE(word))
    THEN <<"integerConstant", Text(word)>>
    ELSE IF word_matches_pattern(STRING_RE(word))
    THEN <<"stringConstant", Text(SubSeq(word, 2, Len(word) - 1))>>
    ELSE IF word_matches_pattern(KEYWORD_RE(word))
    THEN <<"keyword", Text(word)>>
    ELSE IF word_matches_pattern(SYMBOL_RE(word))
    THEN <<"symbol", IF Text(word) \in DOMAIN XML_DICT
                     THEN XML_DICT[Text(word)]
                     ELSE Text(word)>>
    ELSE <<"identifier", Text(word)>>

(* __get_tokens as a state machine: findall scans the text from left to    *)
(* right, and every word it finds is appended as a token.                  *)

\* the characters of the source texts
SourceCharacters == {"d", "o", "x", "1", "<", ">", "&", "+", "\"", " "}

SourceTexts ==
    UNION { [1..n -> SourceCharacters] : n \in 0..MaxSourceLen }

\* the text findall has not scanned yet
Unscanned == SubSeq(input_file_str, scan_idx + 1, Len(input_file_str))

TokenizerInit ==
    /\ input_file_str \in SourceTexts
    /\ scan_idx = 0
    /\ cur_idx = 0
    /\ comment_free_str = <<>>
    /\ tokens = <<>>
    /\ out = <<>>
    /\ symbol_table = SymbolTableInit
    /\ class_name = ""
    /\ function_type = ""
    /\ cur_name = ""
    /\ pc = "get_tokens"
    /\ consumed = <<>>
    /\ calls = 0

\* findall finds a word at its position: line 152 appends it as a token
GetTokensAppend ==
    /\ pc = "get_tokens"
    /\ PATTERN(Unscanned) > 0
    /\ tokens' =
           Append(tokens, type_and_value(SubSeq(Unscanned, 1, PATTERN(Unscanned))))
    /\ scan_idx' = scan_idx + PATTERN(Unscanned)
    /\ UNCHANGED <<out, symbol_table, class_name, function_type, cur_name, pc,
                   consumed, calls, input_file_str, cur_idx, comment_free_str>>

\* findall finds no word at its position and moves one character on
GetTokensSkip ==
    /\ pc = "get_tokens"
    /\ Unscanned # <<>>
    /\ PATTERN(Unscanned) = 0
    /\ scan_idx' = scan_idx + 1
    /\ UNCHANGED <<tokens, out, symbol_table, class_name, function_type,
                   cur_name, pc, consumed, calls, input_file_str, cur_idx,
                   comment_free_str>>

\* the text is scanned: __get_tokens returns the list, line 153
GetTokensReturn ==
    /\ pc = "get_tokens"
    /\ Unscanned = <<>>
    /\ pc' = "tokens_ready"
    /\ UNCHANGED <<tokens, out, symbol_table, class_name, function_type,
                   cur_name, consumed, calls, input_file_str, scan_idx,
                   cur_idx, comment_free_str>>

TokenizerNext ==
    \/ GetTokensAppend
    \/ GetTokensSkip
    \/ GetTokensReturn

TokenizerSpec == TokenizerInit /\ [][TokenizerNext]_vars

(* __remove_comments (lines 127-146) as a state machine: one step is one   *)
(* iteration of its loop.  Positions are Python's, counted from 0.         *)

MaxTextLen == 4       \* characters of a text with comments

\* so many characters a run that passes each position once keeps at most;
\* iterations beyond are not followed
MaxKept == 2 * (MaxTextLen + 1)

\* text[a:b], for 0 <= a
Slice(text, a, b) ==
    SubSeq(text, a + 1, IF b < Len(text) THEN b ELSE Len(text))

\* text.find(sub, start): the lowest position from start on where sub
\* begins, -1 when there is none
Find(text, sub, start) ==
    LET found == { k \in start..(Len(text) - Len(sub)) :
                       Slice(text, k, k + Len(sub)) = sub }
    IN  IF found = {} THEN -1
        ELSE CHOOSE k \in found : \A j \in found : k <= j

\* lines 132-135: at a quotation mark, keep the text up to the next one
AfterQuotation(text, r) ==
    IF text[r.cur_idx + 1] = "\""
    THEN LET quot_end == Find(text, <<"\"">>, r.cur_idx + 1)
         IN  [r EXCEPT
                 !.comment_free_str = @ \o Slice(text, r.cur_idx, quot_end + 1),
                 !.cur_idx = quot_end + 1]
    ELSE r

\* lines 137-145: skip a comment, or keep one character; reading the
\* character at a position past the end raises IndexError
AfterComment(text, r) ==
    IF Slice(text, r.cur_idx, r.cur_idx + 2) = <<"/", "/">>
    THEN [r EXCEPT !.cur_idx = Find(text, <<"\n">>, r.cur_idx + 1) + 1,
                   !.comment_free_str = Append(@, "\n")]
    ELSE IF Slice(text, r.cur_idx, r.cur_idx + 2) = <<"/", "*">>
    THEN [r EXCEPT !.cur_idx = Find(text, <<"*", "/">>, r.cur_idx + 1) + 2,
                   !.comment_free_str = Append(@, "\n")]
    ELSE IF r.cur_idx < Len(text)
    THEN [r EXCEPT !.comment_free_str = Append(@, text[r.cur_idx + 1]),
                   !.cur_idx = @ + 1]
    ELSE [r EXCEPT !.raised = "IndexError"]

\* one iteration of the loop
Iteration(text, r) == AfterComment(text, AfterQuotation(text, r))

\* the characters of the texts
TextCharacters == {"/", "*", "\"", "\n", "x"}

Texts == UNION { [1..n -> TextCharacters] : n \in 0..MaxTextLen }

RemoveCommentsInit ==
    /\ input_file_str \in Texts
    /\ cur_idx = 0
    /\ comment_free_str = <<>>
    /\ scan_idx = 0
    /\ tokens = <<>>
    /\ out = <<>>
    /\ symbol_table = SymbolTableInit
    /\ class_name = ""
    /\ function_type = ""
    /\ cur_name = ""
    /\ pc = "remove_comments"
    /\ consumed = <<>>
    /\ calls = 0

\* while cur_idx < len(self.__input_file_str): the body
RemoveCommentsIteration ==
    /\ pc = "remove_comments"
    /\ cur_idx < Len(input_file_str)
    /\ Len(comment_free_str) <= MaxKept
    /\ LET r == Iteration(input_file_str,
                          [cur_idx |-> cur_idx,
                           comment_free_str |-> comment_free_str,
                           raised |-> "remove_comments"])
       IN  /\ cur_idx' = r.cur_idx
           /\ comment_free_str' = r.comment_free_str
           /\ pc' = r.raised
    /\ UNCHANGED <<tokens, out, symbol_table, class_name, function_type,
                   cur_name, consumed, calls, input_file_str, scan_idx>>

\* the loop is left: line 146
RemoveCommentsReturn ==
    /\ pc = "remove_comments"
    /\ cur_idx >= Len(input_file_str)
    /\ input_file_str' = comment_free_str
    /\ pc' = "comments_removed"
    /\ UNCHANGED <<tokens, out, symbol_table, class_name, function_type,
                   cur_name, consumed, calls, scan_idx, cur_idx,
                   comment_free_str>>

RemoveCommentsNext ==
    \/ RemoveCommentsIteration
    \/ RemoveCommentsReturn

RemoveCommentsSpec == RemoveCommentsInit /\ [][RemoveCommentsNext]_vars

-----------------------------------------------------------------------------
(* The symbol table on its own: its methods called in any order by a       *)
(* client, with names a client may pass.                                   *)

MaxCalls == 6         \* calls a client makes to the symbol table

ApiNames == {"a", "b"}
ApiKinds == {"static", "field", "arg", "var"}
ApiSubroutines == {"Main.f", "Main.g"}

\* the type a client declares a name with
ApiType(name) == IF name = "a" THEN "int" ELSE "Bar"

\* the dict a define of this kind stores into
DefineTarget(st, kind) ==
    IF kind \in {"static", "field"} THEN st.class_level_symbol_table
    ELSE CurTable(st)

ApiInit ==
    /\ symbol_table = SymbolTableInit
    /\ tokens = <<>>
    /\ out = <<>>
    /\ class_name = ""
    /\ function_type = ""
    /\ cur_name = ""
    /\ pc = "api"
    /\ consumed = <<>>
    /\ calls = 0
    /\ input_file_str = <<>>
    /\ scan_idx = 0
    /\ cur_idx = 0
    /\ comment_free_str = <<>>

\* one more call, and nothing of the engine changes
ApiCall ==
    /\ pc = "api"
    /\ calls < MaxCalls
    /\ calls' = calls + 1
    /\ UNCHANGED <<tokens, out, class_name, function_type, cur_name, pc,
                   consumed, input_file_str, scan_idx, cur_idx,
                   comment_free_str>>

\* define(name, type, kind), of a name its scope does not hold yet
ApiDefine ==
    /\ ApiCall
    /\ \E name \in ApiNames, kind \in ApiKinds :
          /\ name \notin DOMAIN DefineTarget(symbol_table, kind)
          /\ symbol_table' = define(symbol_table, name, ApiType(name), kind)

ApiStartSubroutine ==
    /\ ApiCall
    /\ \E name \in ApiSubroutines :
          symbol_table' = start_subroutine(symbol_table, name)

ApiSetCurLevelSymbolTable ==
    /\ ApiCall
    /\ \E name \in {"class"} \cup DOMAIN symbol_table.subroutine_symbol_table :
          symbol_table' = set_cur_level_symbol_table(symbol_table, name)

ApiIncrementIfCounter ==
    /\ ApiCall
    /\ symbol_table' = increment_if_counter(symbol_table)

ApiIncrementWhileCounter ==
    /\ ApiCall
    /\ symbol_table' = increment_while_counter(symbol_table)

ApiNext ==
    \/ ApiDefine
    \/ ApiStartSubroutine
    \/ ApiSetCurLevelSymbolTable
    \/ ApiIncrementIfCounter
    \/ ApiIncrementWhileCounter

ApiSpec == ApiInit /\ [][ApiNext]_vars

-----------------------------------------------------------------------------
(* Claims *)

\* the indices of the symbols of a kind in a dict
IndicesOf(table, kind) ==
    { table[n][3] : n \in { m \in DOMAIN table : table[m][2] = kind } }

\* the scope partitions: the class scope and the current scope
ScopePartitions(st) == { st.class_level_symbol_table, CurTable(st) }

\* C1: after any sequence of define / start_subroutine /
\* set_cur_level_symbol_table calls that declares no name twice in one scope,
\* the indices of the symbols of each kind in the class scope and in the
\* current scope are exactly 0 .. n-1, n the number of symbols of that kind
\* in that scope.
C1_IndicesContiguous ==
    \A table \in ScopePartitions(symbol_table), kind \in ApiKinds :
        IndicesOf(table, kind) = 0 .. (CountKind(table, kind) - 1)


(* What a step of the engine consumed and emitted *)

Delta == SubSeq(tokens, 1, Len(tokens) - Len(tokens'))

Emitted == SubSeq(out', Len(out) + 1, Len(out'))

\* the step is one round of the statements loop of a subroutine body
StatementStep == pc = "statements" /\ pc' = "statements"

(* The instructions of one function: from its function instruction to the  *)
(* next one.                                                               *)

FunctionStart(i) ==
    CHOOSE j \in 1..i :
        /\ out[j][1] = "function"
        /\ \A k \in (j + 1)..i : out[k][1] # "function"

\* instruction i is placed before instruction j in the same function
EarlierInFunction(i, j) == i < j /\ FunctionStart(i) = FunctionStart(j)

Placed(i, label) == out[i] = <<"label", label>>

(* The declaration of the subroutine being compiled, read off the tokens   *)
(* consumed so far: its keyword, the ( of its parameter list and the ) .   *)

SubroutineAt ==
    CHOOSE h \in 1..Len(consumed) :
        /\ consumed[h] \in { KW(k) : k \in Kinds }
        /\ \A j \in (h + 1)..Len(consumed) :
               consumed[j] \notin { KW(k) : k \in Kinds }

ParametersEnd ==
    CHOOSE q \in (SubroutineAt + 4)..Len(consumed) :
        /\ consumed[q] = SY(")")
        /\ \A j \in (SubroutineAt + 4)..(q - 1) : consumed[j] # SY(")")

\* the names of the declared parameters, in order
DeclaredParameters ==
    [i \in 1..((ParametersEnd - SubroutineAt - 3) \div 3) |->
        consumed[SubroutineAt + 2 + 3 * i][2]]

\* the first local of the subroutine's body: { var type NAME
FirstLocal ==
    IF /\ Len(consumed) >= ParametersEnd + 4
       /\ consumed[ParametersEnd + 2] = KW("var")
    THEN consumed[ParametersEnd + 4][2]
    ELSE None

\* C2: start_subroutine resets the argument, local, if and while counters
\* to 0 whatever the previous subroutine left: right after it all four are
\* 0, the first argument and the first local defined afterwards get index 0,
\* and in the code of every function the first if and the first while have
\* label number 0 (a label with a number above 0 comes after the one with
\* number 0).
C2_StartSubroutineResets ==
    /\ pc = "parameter_list" =>
          /\ symbol_table.arg_counter = 0
          /\ symbol_table.var_counter = 0
          /\ symbol_table.if_counter = 0
          /\ symbol_table.while_counter = 0
    /\ pc = "statements" =>
          /\ function_type = "method" =>
                CurTable(symbol_table)["this"] = <<"self", "arg", 0>>
          /\ function_type # "method" /\ DeclaredParameters # <<>> =>
                /\ CurTable(symbol_table)[DeclaredParameters[1]][2] = "arg"
                /\ CurTable(symbol_table)[DeclaredParameters[1]][3] = 0
          /\ FirstLocal # None =>
                /\ CurTable(symbol_table)[FirstLocal][2] = "var"
                /\ CurTable(symbol_table)[FirstLocal][3] = 0
    /\ \A i \in 1..Len(out), n \in 1..Len(out) :
          /\ Placed(i, WhileStartLabel(n)) =>
                \E j \in 1..Len(out) :
                    EarlierInFunction(j, i) /\ Placed(j, WhileStartLabel(0))
          /\ Placed(i, IfTrueLabel(n)) =>
                \E j \in 1..Len(out) :
                    EarlierInFunction(j, i) /\ Placed(j, IfTrueLabel(0))

\* a second subroutine, entered with every counter left above 0 by the
\* first, has defined an argument and a local and compiled an if and a while
C2_Witness ==
    /\ pc = "statements"
    /\ Cardinality({ i \in 1..Len(out) : out[i][1] = "function" }) = 2
    /\ \E i \in 1..Len(out) :
          /\ Placed(i, WhileStartLabel(1))
          /\ \E j, k \in 1..Len(out) :
                /\ EarlierInFunction(i, j) /\ out[j] = <<"return">>
                /\ j < k /\ Placed(k, WhileStartLabel(0))
                /\ \E l \in 1..Len(out) :
                      EarlierInFunction(l, k) /\ Placed(l, IfTrueLabel(0))
    /\ CountKind(CurTable(symbol_table), "arg") > 0
    /\ CountKind(CurTable(symbol_table), "var") > 0


EndsWith(s, t) ==
    Len(s) >= Len(t) /\ SubSeq(s, Len(s) - Len(t) + 1, Len(s)) = t

\* name is a static / field of the class and an arg / var of the subroutine
Shadowed(name) ==
    /\ name \in DOMAIN symbol_table.class_level_symbol_table
    /\ symbol_table.class_level_symbol_table[name][2] \in {"static", "field"}
    /\ name \in DOMAIN CurTable(symbol_table)
    /\ CurTable(symbol_table)[name][2] \in {"arg", "var"}

\* the access to the subroutine symbol: push / pop argument i or local i
SubroutineAccess(method, name) ==
    <<method,
      IF CurTable(symbol_table)[name][2] = "arg" THEN "argument" ELSE "local",
      Str(CurTable(symbol_table)[name][3])>>

\* C3: while a name is both a static / field of the class and an arg / var
\* of the current subroutine, kind_of, type_of and index_of answer with the
\* subroutine symbol, and the engine's push and pop of the name use the
\* argument / local segment with the subroutine symbol's index: for a push
\* or pop written now, and in the code of the statements just compiled
\* ( let x = x + foo;  let foo = -y * 2;  return x; ).
C3_SubroutineScopeShadows ==
    /\ \A name \in DOMAIN symbol_table.class_level_symbol_table :
          Shadowed(name) =>
              /\ kind_of(symbol_table, name) = CurTable(symbol_table)[name][2]
              /\ type_of(symbol_table, name) = CurTable(symbol_table)[name][1]
              /\ index_of(symbol_table, name)
                     = CurTable(symbol_table)[name][3]
              /\ write_push(Engine, name).out
                     = Append(out, SubroutineAccess("push", name))
              /\ write_pop(Engine, name).out
                     = Append(out, SubroutineAccess("pop", name))
    /\ /\ pc = "statements"
       /\ EndsWith(consumed, Let("x", <<ID("x"), SY("+"), ID("foo")>>))
       /\ Shadowed("x") /\ Shadowed("foo")
       => EndsWith(out, <<SubroutineAccess("push", "x"),
                          SubroutineAccess("push", "foo"),
                          <<"add">>,
                          SubroutineAccess("pop", "x")>>)
    /\ /\ pc = "statements"
       /\ EndsWith(consumed,
                   Let("foo", <<SY("-"), ID("y"), SY("*"), IC("2")>>))
       /\ Shadowed("foo")
       => EndsWith(out, <<SubroutineAccess("pop", "foo")>>)
    /\ /\ pc = "statements"
       /\ EndsWith(consumed, <<KW("return"), ID("x"), SY(";")>>)
       /\ Shadowed("x")
       => EndsWith(out, <<SubroutineAccess("push", "x"), <<"return">>>>)

\* let x = x + foo; was compiled where x is field 1 and argument 0 and foo
\* is field 0 and a local
C3_Witness ==
    /\ pc = "statements"
    /\ EndsWith(consumed, Let("x", <<ID("x"), SY("+"), ID("foo")>>))
    /\ Shadowed("x") /\ Shadowed("foo")
    /\ symbol_table.class_level_symbol_table["x"] = <<"int", "field", 1>>
    /\ CurTable(symbol_table)["x"] = <<"int", "arg", 0>>
    /\ CurTable(symbol_table)["foo"][2] = "var"


\* C4: in the code of one subroutine, whatever the sequence and nesting of
\* its if and while statements, every label name is placed by at most one
\* label instruction: no two if statements share the number of IF_STARTN /
\* ELSEN / IF_ENDN and no two while statements that of WHILE_STARTN /
\* WHILE_ENDN.
C4_LabelsDistinct ==
    \A i, j \in 1..Len(out) :
        /\ out[i][1] = "label"
        /\ EarlierInFunction(i, j)
        => out[j] # out[i]

\* the label and function instructions written so far, in order
LabelsPlaced ==
    SelectSeq(out, LAMBDA ins : ins[1] \in {"label", "function"})

\* one function with a while around an if, then a second if and a second
\* while, has placed eight different labels
C4_Witness ==
    \E i \in 1..Len(LabelsPlaced) :
        /\ LabelsPlaced[i][1] = "function"
        /\ Len(LabelsPlaced) >= i + 8
        /\ SubSeq(LabelsPlaced, i + 1, i + 8) =
              << <<"label", WhileStartLabel(0)>>,
                 <<"label", IfTrueLabel(0)>>,
                 <<"label", IfFalseLabel(0)>>,
                 <<"label", WhileEndLabel(0)>>,
                 <<"label", IfTrueLabel(1)>>,
                 <<"label", IfFalseLabel(1)>>,
                 <<"label", WhileStartLabel(1)>>,
                 <<"label", WhileEndLabel(1)>> >>


(* What the statements of the claims below are expected to compile to *)

\* the code of one expression, compiled on its own in the current scopes
CodeOf(expression) ==
    compile_expression([tokens |-> expression \o <<SY(";")>>,
                        out |-> <<>>,
                        st |-> symbol_table,
                        class_name |-> class_name]).out

RECURSIVE CodeOfAll(_)
\* the code of expressions e1 .. en, in order
CodeOfAll(expressions) ==
    IF expressions = <<>> THEN <<>>
    ELSE CodeOf(Head(expressions)) \o CodeOfAll(Tail(expressions))

\* the expressions e1 .. en of ArgList(n)
Arguments(n) == [i \in 1..n |-> ArgExprs[((i - 1) % 4) + 1]]

Known(name) ==
    \/ name \in DOMAIN CurTable(symbol_table)
    \/ name \in DOMAIN symbol_table.class_level_symbol_table

\* the symbol a known name resolves to: <<type, kind, index>>
Symbol(name) ==
    IF name \in DOMAIN CurTable(symbol_table)
    THEN CurTable(symbol_table)[name]
    ELSE symbol_table.class_level_symbol_table[name]

Segment(kind) ==
    CASE kind = "arg" -> "argument"
      [] kind = "var" -> "local"
      [] kind = "field" -> "this"
      [] kind = "static" -> "static"

\* push / pop of a known variable: its segment and index
Access(method, name) ==
    <<method, Segment(Symbol(name)[2]), Str(Symbol(name)[3])>>

\* the store of let name = ... ; (an undeclared name is not stored)
StoreTo(name) == IF Known(name) THEN <<Access("pop", name)>> ELSE <<>>

CallOf(name, n_args) == <<"call", name, Str(n_args)>>

PopTemp == <<"pop", "temp", "0">>

\* C5: a qualified call x.m(e1, ..., en) whose x is known in the subroutine
\* or the class scope compiles to the push of x (its segment and index), the
\* code of e1 .. en in order and call T.m n+1 with T the declared type of x,
\* as a do statement and as a term; foo.bar(1) with local foo of type Bar
\* gives push local <index of foo>, push constant 1, call Bar.bar 2.
C5_QualifiedCallOnVariable ==
    [][ /\ \A x \in {"foo", "s"}, n \in 0..MaxArgs :
              StatementStep /\ Known(x) =>
                /\ Delta = Do(QualifiedCall(x, "bar", ArgList(n))) =>
                      Emitted = <<Access("push", x)>> \o
                                CodeOfAll(Arguments(n)) \o
                                <<CallOf(Dotted(Symbol(x)[1], "bar"), n + 1),
                                  PopTemp>>
                /\ Delta = Let("y", QualifiedCall(x, "bar", ArgList(n))) =>
                      Emitted = <<Access("push", x)>> \o
                                CodeOfAll(Arguments(n)) \o
                                <<CallOf(Dotted(Symbol(x)[1], "bar"), n + 1)>>
                                \o StoreTo("y")
        /\ /\ StatementStep
           /\ Delta = Do(QualifiedCall("foo", "bar", <<IC("1")>>))
           /\ "foo" \in DOMAIN CurTable(symbol_table)
           /\ CurTable(symbol_table)["foo"][1] = "Bar"
           /\ CurTable(symbol_table)["foo"][2] = "var"
           => Emitted = << <<"push", "local",
                             Str(CurTable(symbol_table)["foo"][3])>>,
                           <<"push", "constant", "1">>,
                           <<"call", "Bar.bar", "2">>,
                           PopTemp >>
      ]_vars

\* do foo.bar(1); was compiled with foo the local 0 of type Bar
C5_Witness ==
    /\ pc = "statements"
    /\ EndsWith(consumed, Do(QualifiedCall("foo", "bar", <<IC("1")>>)))
    /\ "foo" \in DOMAIN CurTable(symbol_table)
    /\ CurTable(symbol_table)["foo"] = <<"Bar", "var", 0>>
    /\ EndsWith(out, << <<"push", "local", "0">>,
                        <<"push", "constant", "1">>,
                        <<"call", "Bar.bar", "2">>,
                        PopTemp >>)

\* C6: a qualified call C.m(e1, ..., en) whose C is in neither the
\* subroutine nor the class scope compiles to the code of e1 .. en in order
\* and call C.m n: no receiver is pushed and n is not increased.
C6_QualifiedCallOnClass ==
    [][ /\ \A x \in {"foo", "s", "Out"}, n \in 0..MaxArgs :
              StatementStep /\ ~Known(x) =>
                /\ Delta = Do(QualifiedCall(x, "bar", ArgList(n))) =>
                      Emitted = CodeOfAll(Arguments(n)) \o
                                <<CallOf(Dotted(x, "bar"), n), PopTemp>>
                /\ Delta = Let("y", QualifiedCall(x, "bar", ArgList(n))) =>
                      Emitted = CodeOfAll(Arguments(n)) \o
                                <<CallOf(Dotted(x, "bar"), n)>> \o
                                StoreTo("y")
        /\ \A str \in Strings :
              /\ StatementStep
              /\ Delta = Do(QualifiedCall("Out", "print", <<SC(str)>>))
              => Emitted = CodeOf(<<SC(str)>>) \o
                           <<CallOf("Out.print", 1), PopTemp>>
      ]_vars

\* let y = Out.bar(1, x); was compiled with x and y declared and Out not
C6_Witness ==
    /\ pc = "statements"
    /\ EndsWith(consumed, Let("y", QualifiedCall("Out", "bar", ArgList(2))))
    /\ ~Known("Out") /\ Known("x") /\ Known("y")
    /\ EndsWith(out, << <<"push", "constant", "1">>,
                        Access("push", "x"),
                        <<"call", "Out.bar", "2">>,
                        Access("pop", "y") >>)

\* C7: an unqualified call m(e1, ..., en), as a do statement or as a term,
\* compiles to push pointer 0, the code of e1 .. en in order and
\* call <class name>.m n+1; bar(1) inside a method gives push pointer 0,
\* push constant 1, call <class name>.bar 2.
C7_UnqualifiedCall ==
    [][ /\ \A n \in 0..MaxArgs :
              StatementStep =>
                /\ Delta = Do(UnqualifiedCall("bar", ArgList(n))) =>
                      Emitted = << <<"push", "pointer", "0">> >> \o
                                CodeOfAll(Arguments(n)) \o
                                <<CallOf(Dotted(class_name, "bar"), n + 1),
                                  PopTemp>>
                /\ Delta = Let("y", UnqualifiedCall("bar", ArgList(n))) =>
                      Emitted = << <<"push", "pointer", "0">> >> \o
                                CodeOfAll(Arguments(n)) \o
                                <<CallOf(Dotted(class_name, "bar"), n + 1)>>
                                \o StoreTo("y")
        /\ /\ StatementStep
           /\ Delta = Do(UnqualifiedCall("bar",
                                         QualifiedCall("foo", "get", <<>>)))
           => Emitted = << <<"push", "pointer", "0">> >> \o
                        CodeOf(QualifiedCall("foo", "get", <<>>)) \o
                        <<CallOf(Dotted(class_name, "bar"), 2), PopTemp>>
        /\ /\ StatementStep
           /\ function_type = "method"
           /\ Delta = Do(UnqualifiedCall("bar", <<IC("1")>>))
           => Emitted = << <<"push", "pointer", "0">>,
                           <<"push", "constant", "1">>,
                           <<"call", "Main.bar", "2">>,
                           PopTemp >>
      ]_vars

\* do bar(1); was compiled inside a method of class Main
C7_Witness ==
    /\ pc = "statements"
    /\ function_type = "method"
    /\ class_name = "Main"
    /\ EndsWith(consumed, Do(UnqualifiedCall("bar", <<IC("1")>>)))
    /\ EndsWith(out, << <<"push", "pointer", "0">>,
                        <<"push", "constant", "1">>,
                        <<"call", "Main.bar", "2">>,
                        PopTemp >>)


\* the code of the statements of a block, compiled on their own in the
\* current scopes with the symbol table st
BlockCode(statements, st) ==
    compile_statements([tokens |-> statements \o <<SY("}")>>,
                        out |-> <<>>,
                        st |-> st,
                        class_name |-> class_name]).out

\* the while statements the programs have at the top of a subroutine body
WhileSamples ==
    { [cond |-> Cond, body |-> b] : b \in Blocks(MaxDepth - 1) } \cup
    { [cond |-> CondEq,
       body |-> Leaf \o Let("x", <<ID("x"), SY("+"), IC("1")>>)] }

\* no while statement of the current subroutine has been compiled yet
FirstWhile ==
    \A j \in SubroutineAt..Len(consumed) : consumed[j] # KW("while")

\* C8: a while statement with label number N compiles to exactly
\* label WHILE_STARTN, the condition's code, not, if-goto WHILE_ENDN, the
\* body's code, goto WHILE_STARTN, label WHILE_ENDN; the first while of a
\* subroutine has N = 0, so  while (x) { let y = 1; }  gives
\* label WHILE_START0 / push x / not / if-goto WHILE_END0 / push constant 1 /
\* pop y / goto WHILE_START0 / label WHILE_END0, and a while nested in it
\* has N = 1.
C8_WhileShape ==
    [][ /\ \A w \in WhileSamples :
              StatementStep /\ Delta = While(w.cond, w.body) =>
                 Emitted =
                   << <<"label", "WHILE_START" \o
                                     Str(symbol_table.while_counter)>> >> \o
                   CodeOf(w.cond) \o
                   << <<"not">>,
                      <<"if-goto", "WHILE_END" \o
                                     Str(symbol_table.while_counter)>> >> \o
                   BlockCode(w.body,
                             [symbol_table EXCEPT !.while_counter = @ + 1]) \o
                   << <<"goto", "WHILE_START" \o
                                     Str(symbol_table.while_counter)>>,
                      <<"label", "WHILE_END" \o
                                     Str(symbol_table.while_counter)>> >>
        /\ /\ StatementStep /\ FirstWhile
           /\ Delta = While(Cond, Leaf)
           /\ Known("x") /\ Known("y")
           => Emitted = << <<"label", "WHILE_START0">>,
                           Access("push", "x"),
                           <<"not">>,
                           <<"if-goto", "WHILE_END0">>,
                           <<"push", "constant", "1">>,
                           Access("pop", "y"),
                           <<"goto", "WHILE_START0">>,
                           <<"label", "WHILE_END0">> >>
        /\ /\ StatementStep /\ FirstWhile
           /\ Delta = While(Cond, While(Cond, Leaf))
           /\ Known("x") /\ Known("y")
           => Emitted = << <<"label", "WHILE_START0">>,
                           Access("push", "x"),
                           <<"not">>,
                           <<"if-goto", "WHILE_END0">>,
                           <<"label", "WHILE_START1">>,
                           Access("push", "x"),
                           <<"not">>,
                           <<"if-goto", "WHILE_END1">>,
                           <<"push", "constant", "1">>,
                           Access("pop", "y"),
                           <<"goto", "WHILE_START1">>,
                           <<"label", "WHILE_END1">>,
                           <<"goto", "WHILE_START0">>,
                           <<"label", "WHILE_END0">> >>
      ]_vars

\* while (x) { let y = 1; } was compiled as the first while of a subroutine
\* with x local 1 and y local 0
C8_Witness ==
    /\ pc = "statements"
    /\ EndsWith(consumed, While(Cond, Leaf))
    /\ "x" \in DOMAIN CurTable(symbol_table)
    /\ "y" \in DOMAIN CurTable(symbol_table)
    /\ EndsWith(out, << <<"label", "WHILE_START0">>,
                        <<"push", "local", "1">>,
                        <<"not">>,
                        <<"if-goto", "WHILE_END0">>,
                        <<"push", "constant", "1">>,
                        <<"pop", "local", "0">>,
                        <<"goto", "WHILE_START0">>,
                        <<"label", "WHILE_END0">> >>)


RECURSIVE FieldsDeclared(_, _)
\* the number of variables the field declarations of a class declare, read
\* off its tokens up to the first subroutine: one per name after field
FieldsDeclared(toks, in_field) ==
    IF toks = <<>> \/ Head(toks) \in { KW(k) : k \in Kinds } THEN 0
    ELSE IF Head(toks) = KW("field")
         THEN 1 + FieldsDeclared(Tail(toks), TRUE)
    ELSE IF Head(toks) = KW("static")
         THEN FieldsDeclared(Tail(toks), FALSE)
    ELSE IF Head(toks) = SY(",") /\ in_field
         THEN 1 + FieldsDeclared(Tail(toks), in_field)
    ELSE FieldsDeclared(Tail(toks), in_field)

\* C9: a constructor of a class with k field variables emits, directly after
\* its function instruction and before the code of any statement,
\* push constant k / call Memory.alloc 1 / pop pointer 0, where k counts the
\* field declarations of the class only, not its statics nor the parameters
\* and locals of the constructor.
C9_ConstructorPrologue ==
    [][ /\ pc = "subroutine_body" /\ pc' = "statements"
        /\ function_type = "constructor"
        => /\ Len(Emitted) = 4
           /\ Emitted[1][1] = "function"
           /\ SubSeq(Emitted, 2, 4) =
                 << <<"push", "constant",
                      Str(FieldsDeclared(consumed, FALSE))>>,
                    <<"call", "Memory.alloc", "1">>,
                    <<"pop", "pointer", "0">> >>
      ]_vars

\* a constructor with a parameter and a local, in a class with two statics
\* and two fields, has emitted its function instruction and push constant 2
C9_Witness ==
    /\ pc = "statements"
    /\ function_type = "constructor"
    /\ CountKind(symbol_table.class_level_symbol_table, "static") = 2
    /\ CountKind(symbol_table.class_level_symbol_table, "field") = 2
    /\ CountKind(CurTable(symbol_table), "arg") = 1
    /\ CountKind(CurTable(symbol_table), "var") = 1
    /\ Len(out) = 4
    /\ SubSeq(out, 2, 4) = << <<"push", "constant", "2">>,
                              <<"call", "Memory.alloc", "1">>,
                              <<"pop", "pointer", "0">> >>


\* push constant n, call String.new 1, then for the characters c1 .. cn of
\* the string: push constant ord(ci), call String.appendChar 2
StringCode(string) ==
    [i \in 1..(2 * Len(string) + 2) |->
        IF i = 1 THEN <<"push", "constant", Str(Len(string))>>
        ELSE IF i = 2 THEN <<"call", "String.new", "1">>
        ELSE IF i % 2 = 1
             THEN <<"push", "constant",
                    Str(Ord[SubSeq(string, (i - 1) \div 2, (i - 1) \div 2)])>>
             ELSE <<"call", "String.appendChar", "2">>]

\* C10: a string constant of length n compiles to exactly push constant n,
\* call String.new 1, then for each of its characters in order
\* push constant <ordinal> and call String.appendChar 2, and nothing else:
\* as the value of a let and as the argument of a call, with the empty
\* string giving the first two instructions only.
C10_StringConstant ==
    [][ /\ \A str \in Strings :
              StatementStep =>
                /\ Delta = Let("y", <<SC(str)>>) =>
                      Emitted = StringCode(str) \o StoreTo("y")
                /\ Delta = Do(QualifiedCall("Out", "print", <<SC(str)>>)) =>
                      Emitted = StringCode(str) \o
                                <<CallOf("Out.print", 1), PopTemp>>
        /\ StatementStep /\ Delta = Let("y", <<SC("")>>) =>
              Emitted = << <<"push", "constant", "0">>,
                           <<"call", "String.new", "1">> >> \o StoreTo("y")
        /\ StatementStep /\ Delta = Let("y", <<SC("ab")>>) =>
              Emitted = << <<"push", "constant", "2">>,
                           <<"call", "String.new", "1">>,
                           <<"push", "constant", "97">>,
                           <<"call", "String.appendChar", "2">>,
                           <<"push", "constant", "98">>,
                           <<"call", "String.appendChar", "2">> >> \o
                        StoreTo("y")
      ]_vars

\* do Out.print("ab"); was compiled
C10_Witness ==
    /\ pc = "statements"
    /\ EndsWith(consumed, Do(QualifiedCall("Out", "print", <<SC("ab")>>)))
    /\ EndsWith(out, << <<"push", "constant", "2">>,
                        <<"call", "String.new", "1">>,
                        <<"push", "constant", "97">>,
                        <<"call", "String.appendChar", "2">>,
                        <<"push", "constant", "98">>,
                        <<"call", "String.appendChar", "2">>,
                        <<"call", "Out.print", "1">>,
                        PopTemp >>)


\* what one instruction adds to the height of the stack
Effect(ins) ==
    CASE ins[1] = "push" -> 1
      [] ins[1] \in {"pop", "if-goto"} -> -1
      [] ins[1] = "call" ->
            1 - (CHOOSE n \in 0..(MaxArgs + 2) : Str(n) = ins[3])
      [] ins[1] \in {"add", "sub", "and", "or", "lt", "gt", "eq"} -> -1
      [] OTHER -> 0

RECURSIVE StackEffect(_)
\* what straight-line code adds to the height of the stack
StackEffect(code) ==
    IF code = <<>> THEN 0 ELSE Effect(Head(code)) + StackEffect(Tail(code))

\* the variables an expression of ReturnExprs reads
VariablesOf(expression) ==
    { expression[i][2] : i \in { j \in 1..Len(expression) :
                                    expression[j][1] = "identifier" } }

\* C11: return; compiles to push constant 0 followed by return, and
\* return e; to the code of e followed by return with no constant pushed, so
\* a compiled return statement leaves exactly one value (the variables of e
\* being declared).
C11_ReturnValue ==
    [][ \A e \in ReturnExprs :
            StatementStep /\ Delta = Return(e) =>
              /\ e = <<>> =>
                    Emitted = << <<"push", "constant", "0">>, <<"return">> >>
              /\ e # <<>> => Emitted = CodeOf(e) \o << <<"return">> >>
              /\ (\A v \in VariablesOf(e) : Known(v)) =>
                    /\ Emitted[Len(Emitted)] = <<"return">>
                    /\ StackEffect(SubSeq(Emitted, 1, Len(Emitted) - 1)) = 1
      ]_vars

\* return x + 1; was compiled with x declared, and in another subroutine
\* return;
C11_Witness ==
    /\ pc = "statements"
    /\ EndsWith(consumed, Return(<<ID("x"), SY("+"), IC("1")>>))
    /\ Known("x")
    /\ EndsWith(out, << Access("push", "x"),
                        <<"push", "constant", "1">>,
                        <<"add">>,
                        <<"return">> >>)


\* C12: every do statement compiles to the code of its call (the receiver
\* push if any, the arguments, the call instruction) immediately followed by
\* pop temp 0, for qualified and unqualified calls and whatever the return
\* type the callee is declared with (run is declared void in a method or
\* function and with the class type in a constructor).
C12_DoDiscardsValue ==
    [][ StatementStep /\ Delta[1] = KW("do") =>
          /\ Emitted = CodeOf(SubSeq(Delta, 2, Len(Delta) - 1)) \o <<PopTemp>>
          /\ Len(Emitted) >= 2
          /\ Emitted[Len(Emitted) - 1][1] = "call"
          /\ Emitted[Len(Emitted)] = PopTemp
          /\ \A i \in 1..(Len(Emitted) - 1) : Emitted[i] # PopTemp
      ]_vars

\* do run(); was compiled in the constructor run, declared to return Main
C12_Witness ==
    /\ pc = "statements"
    /\ function_type = "constructor"
    /\ EndsWith(consumed, <<ID("Main"), ID("run"), SY("("), SY(")"), SY("{"),
                            KW("do"), ID("run"), SY("("), SY(")"), SY(";")>>)
    /\ EndsWith(out, << <<"push", "pointer", "0">>,
                        <<"call", "Main.run", "1">>,
                        PopTemp >>)


\* the type the i-th declared parameter is declared with
ParameterType(i) == consumed[SubroutineAt + 1 + 3 * i][2]

\* C13: in a method the receiver this is argument 0, the declared parameters
\* get the indices 1, 2, ... in order, and the body begins, right after its
\* function instruction, with push argument 0 / pop pointer 0; in a function
\* or constructor no receiver is defined, the declared parameters get the
\* indices 0, 1, ..., and a function emits nothing between its function
\* instruction and its first statement.
C13_ReceiverAndParameters ==
    [][ pc = "subroutine_body" /\ pc' = "statements" =>
          /\ function_type = "method" =>
                /\ "this" \in DOMAIN CurTable(symbol_table)
                /\ CurTable(symbol_table)["this"] = <<"self", "arg", 0>>
                /\ \A i \in 1..Len(DeclaredParameters) :
                      CurTable(symbol_table)[DeclaredParameters[i]]
                          = <<ParameterType(i), "arg", i>>
                /\ Len(Emitted) = 3
                /\ Emitted[1][1] = "function"
                /\ Emitted[2] = <<"push", "argument", "0">>
                /\ Emitted[3] = <<"pop", "pointer", "0">>
          /\ function_type # "method" =>
                /\ "this" \notin DOMAIN CurTable(symbol_table)
                /\ \A i \in 1..Len(DeclaredParameters) :
                      CurTable(symbol_table)[DeclaredParameters[i]]
                          = <<ParameterType(i), "arg", i - 1>>
                /\ Emitted[1][1] = "function"
          /\ function_type = "function" => Len(Emitted) = 1
          /\ CountKind(CurTable(symbol_table), "arg") =
                Len(DeclaredParameters) +
                (IF function_type = "method" THEN 1 ELSE 0)
      ]_vars

\* a method with parameters (Bar foo, int y) has begun its body
C13_Witness ==
    /\ pc = "statements"
    /\ function_type = "method"
    /\ DeclaredParameters = <<"foo", "y">>
    /\ CurTable(symbol_table)["this"] = <<"self", "arg", 0>>
    /\ CurTable(symbol_table)["foo"] = <<"Bar", "arg", 1>>
    /\ CurTable(symbol_table)["y"] = <<"int", "arg", 2>>
    /\ Len(out) = 3
    /\ SubSeq(out, 2, 3) = << <<"push", "argument", "0">>,
                              <<"pop", "pointer", "0">> >>


\* the names the programs declare as variables
VariableNames == {"x", "y", "foo", "s", "t", "a", "b", "z"}

\* C14: every read or write of a declared variable emits exactly one push or
\* pop whose segment follows from the variable's kind (var -> local,
\* arg -> argument, field -> this, static -> static) and whose index is the
\* variable's index in the symbol table, for variables of every kind in
\* constructors, methods and functions: for a push or pop written in the
\* current scopes, and in the code of  let t = v;  let x = x + foo;
\* return x;  compiled there.
C14_OnePushOrPopPerAccess ==
    [][ StatementStep =>
          /\ \A v \in VariableNames :
                Known(v) =>
                  /\ write_push(Engine, v).out
                         = Append(out, Access("push", v))
                  /\ write_pop(Engine, v).out
                         = Append(out, Access("pop", v))
          /\ \A t, v \in VariableNames :
                Delta = Let(t, <<ID(v)>>) /\ Known(t) /\ Known(v) =>
                   Emitted = <<Access("push", v), Access("pop", t)>>
          /\ Delta = Let("x", <<ID("x"), SY("+"), ID("foo")>>)
                /\ Known("x") /\ Known("foo") =>
                   Emitted = <<Access("push", "x"), Access("push", "foo"),
                               <<"add">>, Access("pop", "x")>>
          /\ Delta = Return(<<ID("x")>>) /\ Known("x") =>
                Emitted = <<Access("push", "x"), <<"return">>>>
      ]_vars

\* let s = foo; was compiled in a function with s a static and foo a field
C14_Witness ==
    /\ pc = "statements"
    /\ function_type = "function"
    /\ EndsWith(consumed, Let("s", <<ID("foo")>>))
    /\ ~ ("s" \in DOMAIN CurTable(symbol_table))
    /\ ~ ("foo" \in DOMAIN CurTable(symbol_table))
    /\ EndsWith(out, << <<"push", "this", "0">>, <<"pop", "static", "0">> >>)


\* the symbol table after the statements of a block, compiled on their own
BlockTable(statements, st) ==
    compile_statements([tokens |-> statements \o <<SY("}")>>,
                        out |-> <<>>,
                        st |-> st,
                        class_name |-> class_name]).st

\* the if statements the programs have at the top of a subroutine body
IfSamples ==
    { [cond |-> Cond, then |-> b, else |-> <<>>, has_else |-> FALSE] :
          b \in Blocks(MaxDepth - 1) } \cup
    { [cond |-> Cond, then |-> b, else |-> Leaf, has_else |-> TRUE] :
          b \in Blocks(MaxDepth - 1) } \cup
    { [cond |-> Cond, then |-> Leaf, else |-> b, has_else |-> TRUE] :
          b \in Blocks(MaxDepth - 1) }

IfOf(i) ==
    IF i.has_else THEN IfElse(i.cond, i.then, i.else) ELSE If(i.cond, i.then)

\* the symbol table the then-block of an if is compiled with
ThenTable == [symbol_table EXCEPT !.if_counter = @ + 1]

\* every goto / if-goto written so far has its target placed by exactly one
\* label instruction of the same function
TargetsPlacedOnce ==
    \A i \in 1..Len(out) :
        out[i][1] \in {"goto", "if-goto"} =>
            Cardinality({ j \in 1..Len(out) :
                            /\ out[j] = <<"label", out[i][2]>>
                            /\ FunctionStart(j) = FunctionStart(i) }) = 1

\* C15: an if statement with label number N and an else clause compiles to
\* the condition's code, if-goto IF_STARTN, goto ELSEN, label IF_STARTN, the
\* then-block's code, goto IF_ENDN, label ELSEN, the else-block's code,
\* label IF_ENDN; without an else clause to the condition's code,
\* if-goto IF_STARTN, goto ELSEN, label IF_STARTN, the then-block's code,
\* label ELSEN, with no IF_ENDN; between statements every goto / if-goto
\* target is placed exactly once in its function.
C15_IfShape ==
    [][ /\ \A i \in IfSamples :
              StatementStep /\ Delta = IfOf(i) =>
                 Emitted =
                   CodeOf(i.cond) \o
                   << <<"if-goto", "IF_START" \o Str(symbol_table.if_counter)>>,
                      <<"goto", "ELSE" \o Str(symbol_table.if_counter)>>,
                      <<"label", "IF_START" \o Str(symbol_table.if_counter)>>
                   >> \o
                   BlockCode(i.then, ThenTable) \o
                   (IF i.has_else
                    THEN << <<"goto", "IF_END" \o
                                        Str(symbol_table.if_counter)>>,
                            <<"label", "ELSE" \o
                                        Str(symbol_table.if_counter)>> >> \o
                         BlockCode(i.else, BlockTable(i.then, ThenTable)) \o
                         << <<"label", "IF_END" \o
                                        Str(symbol_table.if_counter)>> >>
                    ELSE << <<"label", "ELSE" \o
                                        Str(symbol_table.if_counter)>> >>)
        /\ /\ StatementStep /\ symbol_table.if_counter = 0
           /\ Delta = IfElse(Cond, If(Cond, Leaf), Leaf)
           /\ Known("x") /\ Known("y")
           => Emitted = << Access("push", "x"),
                           <<"if-goto", "IF_START0">>,
                           <<"goto", "ELSE0">>,
                           <<"label", "IF_START0">>,
                           Access("push", "x"),
                           <<"if-goto", "IF_START1">>,
                           <<"goto", "ELSE1">>,
                           <<"label", "IF_START1">>,
                           <<"push", "constant", "1">>,
                           Access("pop", "y"),
                           <<"label", "ELSE1">>,
                           <<"goto", "IF_END0">>,
                           <<"label", "ELSE0">>,
                           <<"push", "constant", "1">>,
                           Access("pop", "y"),
                           <<"label", "IF_END0">> >>
        /\ pc = "statements" => TargetsPlacedOnce
      ]_vars

\* if (x) { if (x) { let y = 1; } } else { let y = 1; } was compiled as the
\* first if of a subroutine
C15_Witness ==
    /\ pc = "statements"
    /\ EndsWith(consumed, IfElse(Cond, If(Cond, Leaf), Leaf))
    /\ EndsWith(out, << <<"label", "IF_START1">>,
                        <<"push", "constant", "1">>,
                        <<"pop", "local", "0">>,
                        <<"label", "ELSE1">>,
                        <<"goto", "IF_END0">>,
                        <<"label", "ELSE0">>,
                        <<"push", "constant", "1">>,
                        <<"pop", "local", "0">>,
                        <<"label", "IF_END0">> >>)


KindsIn(table) == { table[n][2] : n \in DOMAIN table }

\* C17: in every state the symbol table's methods reach, the class scope
\* holds only static and field symbols (no define of kind arg or var has
\* inserted into it, so a name defined only as arg or var is not contained
\* in the class scope and the class-level counts are those of the static and
\* field defines), and every subroutine scope holds only arg and var symbols.
C17_DefineScopes ==
    /\ KindsIn(symbol_table.class_level_symbol_table)
            \subseteq {"static", "field"}
    /\ \A name \in ApiNames :
          class_level_symbol_table_contains(symbol_table, name) =>
              kind_of(set_cur_level_symbol_table(symbol_table, "class"), name)
                  \in {"static", "field"}
    /\ class_level_var_count(symbol_table, "static")
            = symbol_table.static_counter
    /\ class_level_var_count(symbol_table, "field")
            = symbol_table.field_counter
    /\ \A sub \in DOMAIN symbol_table.subroutine_symbol_table :
          KindsIn(symbol_table.subroutine_symbol_table[sub])
              \subseteq {"arg", "var"}

(* What a step of the tokenizer made a token of *)

\* the word findall found in the step
Word == SubSeq(input_file_str, scan_idx + 1, scan_idx')

\* the token the step appended
Delivered == tokens'[Len(tokens')]

\* C18: every token the tokenizer delivers carries the literal text of its
\* word: a string constant the text between its quotes, every other token
\* the word itself, so that a symbol the engine's binary-operator dicts hold
\* ('<', '>', '&' among them) is delivered with a value they hold; and a
\* word is tagged keyword exactly when it is a reserved word.
C18_LiteralTokenValues ==
    [][ Len(tokens') > Len(tokens) =>
          /\ Delivered[1] = "stringConstant" =>
                /\ Word[1] = "\"" /\ Word[Len(Word)] = "\""
                /\ Delivered[2] = Text(SubSeq(Word, 2, Len(Word) - 1))
          /\ Delivered[1] # "stringConstant" => Delivered[2] = Text(Word)
          /\ Text(Word) \in DOMAIN ARITHMETIC_BINARY_OP_DICT
                               \cup DOMAIN CALL_BINARY_OP_DICT =>
                /\ Delivered[1] = "symbol"
                /\ Delivered[2] \in DOMAIN ARITHMETIC_BINARY_OP_DICT
                                      \cup DOMAIN CALL_BINARY_OP_DICT
          /\ Word \in KEYWORDS <=> Delivered[1] = "keyword"
      ]_vars

\* the names some scope of the table has held: the class scope and the
\* scopes of the subroutines entered so far
NamesDeclared(st) ==
    DOMAIN st.class_level_symbol_table \cup
    UNION { DOMAIN st.subroutine_symbol_table[sub] :
                sub \in DOMAIN st.subroutine_symbol_table } \cup
    (IF st.cur_symbol_table.ref = "orphan"
     THEN DOMAIN st.cur_symbol_table.table ELSE {})

\* the step enters a subroutine: lines 79-88 of __compile_subroutine
EntersSubroutine == pc' = "parameter_list"

\* C19: the step that enters a subroutine leaves an empty subroutine scope
\* and the class scope as it was: afterwards no name resolves to a symbol of
\* an earlier subroutine (a name outside the class scope has no kind, type
\* or index and is not contained in the current scope), every class-scope
\* symbol resolves to its type, kind and index of before, and the static
\* and field counters have the values of before; and no step after the
\* class's variable declarations changes the class scope or these counters.
C19_EnteringSubroutine ==
    [][ /\ EntersSubroutine =>
              /\ CurTable(symbol_table') = EmptyDict
              /\ \A name \in NamesDeclared(symbol_table) :
                    /\ ~ current_symbol_table_contains(symbol_table', name)
                    /\ class_level_symbol_table_contains(symbol_table', name)
                         = class_level_symbol_table_contains(symbol_table, name)
                    /\ IF class_level_symbol_table_contains(symbol_table, name)
                       THEN <<type_of(symbol_table', name),
                              kind_of(symbol_table', name),
                              index_of(symbol_table', name)>>
                                = symbol_table.class_level_symbol_table[name]
                       ELSE /\ kind_of(symbol_table', name) = None
                            /\ type_of(symbol_table', name) = None
                            /\ index_of(symbol_table', name) = None
        /\ pc \notin {"compile_class", "class_var_decs"} \/ EntersSubroutine =>
              /\ symbol_table'.class_level_symbol_table
                    = symbol_table.class_level_symbol_table
              /\ symbol_table'.static_counter = symbol_table.static_counter
              /\ symbol_table'.field_counter = symbol_table.field_counter
      ]_vars

\* a second subroutine has been entered: the first one declared arguments
\* and locals, and the class has fields
C19_Witness ==
    /\ pc = "parameter_list"
    /\ cur_name = "Main.f"
    /\ CurTable(symbol_table) = EmptyDict
    /\ "Main.run" \in DOMAIN symbol_table.subroutine_symbol_table
    /\ KindsIn(symbol_table.subroutine_symbol_table["Main.run"])
          = {"arg", "var"}
    /\ symbol_table.field_counter = 2
    /\ kind_of(symbol_table, "a") = None

\* the function instructions among some instructions
FunctionInstructions(code) ==
    SelectSeq(code, LAMBDA ins : ins[1] = "function")

\* the subroutines whose compilation has begun
SubroutinesBegun ==
    Cardinality({ i \in 1..Len(consumed) :
                      consumed[i] \in { KW(k) : k \in Kinds } })

\* the variables some var declarations declare: the identifiers that a
\* comma or a semicolon follows
LocalsDeclared(toks) ==
    Cardinality({ i \in 1..(Len(toks) - 1) :
                      /\ toks[i][1] = "identifier"
                      /\ toks[i + 1] \in {SY(","), SY(";")} })

\* C20: one function instruction is emitted for every subroutine, as the
\* first instruction emitted for it: none is emitted while its header and
\* parameter list are compiled, the step that parses its var declarations
\* emits  function <class>.<subroutine> k  first, k the number of variables
\* these var declarations declare, and after it at most the prologue, and
\* no other step emits a function instruction; so the output holds as many
\* function instructions as subroutine bodies have begun.
C20_FunctionInstruction ==
    /\ [](Len(FunctionInstructions(out)) =
              IF pc \in {"parameter_list", "subroutine_body"}
              THEN SubroutinesBegun - 1 ELSE SubroutinesBegun)
    /\ [][ IF pc = "subroutine_body"
           THEN /\ Emitted # <<>>
                /\ Emitted[1] =
                       <<"function",
                         Dotted(class_name, consumed[SubroutineAt + 2][2]),
                         Str(LocalsDeclared(Delta))>>
                /\ FunctionInstructions(Tail(Emitted)) = <<>>
           ELSE /\ FunctionInstructions(Emitted) = <<>>
                /\ pc' \in {"parameter_list", "subroutine_body"} =>
                       Emitted = <<>>
         ]_vars

\* the body of a second subroutine, a function with parameter a and local
\* y, has just begun after a method with two parameters and two locals
C20_Witness ==
    /\ pc = "statements"
    /\ FunctionInstructions(out) =
           << <<"function", "Main.run", "2">>, <<"function", "Main.f", "1">> >>
    /\ out[Len(out)] = <<"function", "Main.f", "1">>
    /\ subroutine_level_var_count(symbol_table, "arg") = 1

\* the code of the array read  a[i] , i compiled in the current scopes
ArrayReadCode(a, i) ==
    CodeOf(i) \o
    << Access("push", a), <<"add">>,
       <<"pop", "pointer", "1">>, <<"push", "that", "0">> >>

\* the code of  let a[i] = e;  in the current scopes
ArrayLetCode(a, i, e) ==
    CodeOf(i) \o << Access("push", a), <<"add">> >> \o CodeOf(e) \o
    << <<"pop", "temp", "0">>, <<"pop", "pointer", "1">>,
       <<"push", "temp", "0">>, <<"pop", "that", "0">> >>

\* C21: a statement  let a[i] = e;  whose variables are declared compiles to
\* the code of i, the push of a, add, the code of e, pop temp 0,
\* pop pointer 1, push temp 0, pop that 0 (so pointer 1 is set after e's
\* code only), also when i or e read array elements; and an array read a[i]
\* compiles to the code of i, the push of a, add, pop pointer 1, push that 0.
C21_ArrayLet ==
    [][ StatementStep =>
          \A l \in ArrayLets :
              /\ Delta = LetArray(l.a, l.i, l.e)
              /\ \A name \in {l.a} \cup VariablesOf(l.i) \cup VariablesOf(l.e) :
                    Known(name)
              => /\ Emitted = ArrayLetCode(l.a, l.i, l.e)
                 /\ CodeOf(ArrayRead(l.a, l.i)) = ArrayReadCode(l.a, l.i)
                 /\ StackEffect(Emitted) = 0
      ]_vars

\* let s[y] = foo[s[x]] + 1;  has been compiled in a constructor with
\* static s, field x and arguments foo and y
C21_Witness ==
    /\ pc = "statements"
    /\ function_type = "constructor"
    /\ EndsWith(consumed,
           LetArray("s", <<ID("y")>>,
                    ArrayRead("foo", ArrayRead("s", <<ID("x")>>)) \o
                    <<SY("+"), IC("1")>>))
    /\ EndsWith(out,
           << <<"push", "argument", "1">>, <<"push", "static", "0">>,
              <<"add">>,
              <<"push", "this", "1">>, <<"push", "static", "0">>, <<"add">>,
              <<"pop", "pointer", "1">>, <<"push", "that", "0">>,
              <<"push", "argument", "0">>, <<"add">>,
              <<"pop", "pointer", "1">>, <<"push", "that", "0">>,
              <<"push", "constant", "1">>, <<"add">>,
              <<"pop", "temp", "0">>, <<"pop", "pointer", "1">>,
              <<"push", "temp", "0">>, <<"pop", "that", "0">> >>)

\* the instruction of a binary operator
InstructionOf(op) ==
    CASE op = "+" -> <<"add">>
      [] op = "-" -> <<"sub">>
      [] op = "&" -> <<"and">>
      [] op = "|" -> <<"or">>
      [] op = "<" -> <<"lt">>
      [] op = ">" -> <<"gt">>
      [] op = "=" -> <<"eq">>
      [] op = "*" -> CallOf("Math.multiply", 2)
      [] op = "/" -> CallOf("Math.divide", 2)

RECURSIVE OperatorTail(_, _)
\* code(t2), instr(op1), code(t3), instr(op2), ...
OperatorTail(terms, ops) ==
    IF ops = <<>> THEN <<>>
    ELSE CodeOf(terms[1]) \o <<InstructionOf(ops[1])>> \o
         OperatorTail(Tail(terms), Tail(ops))

\* code(t1), code(t2), instr(op1), code(t3), instr(op2), ...
OperatorCode(terms, ops) ==
    CodeOf(terms[1]) \o OperatorTail(Tail(terms), ops)

\* the statement  let x = t1 op1 t2 ... ;  of an expression of OperatorExprs
LetOf(ex) == Let("x", Expression(ex.terms, ex.ops))

\* C22: an expression t1 op1 t2 op2 t3 ... whose variables are declared
\* compiles to code(t1), code(t2), instr(op1), code(t3), instr(op2), ...,
\* left to right without precedence, instr being add sub and or lt gt eq
\* for + - & | < > = and call Math.multiply 2 / call Math.divide 2 for * and
\* /: the step that starts at  let x = t1 op1 t2 ... ;  consumes the whole
\* statement and emits that code followed by the store to x.
C22_BinaryOperators ==
    [][ StatementStep =>
          \A ex \in OperatorExprs :
              /\ Len(tokens) >= Len(LetOf(ex))
              /\ SubSeq(tokens, 1, Len(LetOf(ex))) = LetOf(ex)
              /\ Known("x") /\ Known("y")
              => /\ Delta = LetOf(ex)
                 /\ Emitted = OperatorCode(ex.terms, ex.ops) \o StoreTo("x")
      ]_vars

(* The height of the stack along the control-flow paths of some code: a    *)
(* point <<i, h>> says that instruction i is reached with h values above   *)
(* the height at the entry of the code; i = Len(code) + 1 is its end.      *)

StackLimit == 12

\* a height, kept within -1 .. StackLimit + 1
Clip(h) == IF h < 0 THEN -1 ELSE IF h > StackLimit THEN StackLimit + 1 ELSE h

\* where a jump to a label goes: the label's place, 0 when it has none
TargetOf(code, label) ==
    IF \E j \in 1..Len(code) : code[j] = <<"label", label>>
    THEN CHOOSE j \in 1..Len(code) : code[j] = <<"label", label>>
    ELSE 0

\* the points that follow a point
After(code, point) ==
    LET i == point[1]
        h == point[2]
    IN  IF i \notin 1..Len(code) THEN {}
        ELSE CASE code[i][1] = "goto" ->
                      { <<TargetOf(code, code[i][2]), h>> }
               [] code[i][1] = "if-goto" ->
                      { <<TargetOf(code, code[i][2]), Clip(h - 1)>>,
                        <<i + 1, Clip(h - 1)>> }
               [] code[i][1] = "return" -> {}
               [] OTHER -> { <<i + 1, Clip(h + Effect(code[i]))>> }

RECURSIVE Reach(_, _, _)
\* the points reachable from the points of a frontier, given those seen
Reach(code, seen, frontier) ==
    IF frontier = {} THEN seen
    ELSE Reach(code, seen \cup frontier,
               UNION { After(code, point) : point \in frontier }
                   \ (seen \cup frontier))

\* the points of the code, entered at its first instruction
Points(code) == Reach(code, {}, { <<1, 0>> })

\* the variables some tokens refer to: the identifiers that are not the
\* name of a subroutine (before a parenthesis or after a period) nor the
\* receiver or class of a call (before a period)
ReferencedVariables(toks) ==
    { toks[i][2] : i \in { j \in 1..Len(toks) :
          /\ toks[j][1] = "identifier"
          /\ j < Len(toks) => toks[j + 1] \notin {SY("("), SY(".")}
          /\ j > 1 => toks[j - 1] # SY(".") } }

\* expressions of every form of term
SampleExpressions ==
    (ReturnExprs \ {<<>>}) \cup
    { Expression(ex.terms, ex.ops) :
          ex \in { x \in OperatorExprs :
                     \A i \in 1..Len(x.ops) : x.ops[i] \notin DOMAIN XML_DICT } }
    \cup { <<SC(str)>> : str \in Strings } \cup
    { ArrayRead("foo", ArrayRead("s", <<ID("x")>>)),
      QualifiedCall("foo", "bar", <<ID("x"), SY(","), ID("y")>>),
      QualifiedCall("Out", "bar", <<>>),
      UnqualifiedCall("bar", <<ID("x")>>),
      <<KW("true")>>, <<KW("null")>>,
      <<SY("~"), ID("x"), SY("|"), SY("-"), IC("1")>> }

\* C23: the emitted code is stack-balanced where the variables referred to
\* are declared: the code of an expression adds one value; the code a step
\* emits for a statement (and for the beginning of a subroutine body) never
\* takes the stack below its height at entry, reaches each of its
\* instructions with one height whatever the path, ends at the height of
\* its entry, and reaches each return with exactly one value.
C23_StackBalanced ==
    /\ [](pc = "statements" =>
            \A ex \in SampleExpressions :
                (\A name \in ReferencedVariables(ex) : Known(name))
                => StackEffect(CodeOf(ex)) = 1)
    /\ [][ (StatementStep => \A name \in ReferencedVariables(Delta) : Known(name))
           => \A p \in Points(Emitted) :
                 /\ p[1] \in 1..(Len(Emitted) + 1)
                 /\ p[2] \in 0..StackLimit
                 /\ \A q \in Points(Emitted) : q[1] = p[1] => q[2] = p[2]
                 /\ p[1] = Len(Emitted) + 1 => p[2] = 0
                 /\ p[1] \in 1..Len(Emitted) =>
                        (Emitted[p[1]] = <<"return">> => p[2] = 1)
         ]_vars

\* if (x) { return x; } else { while (x) { return; } }  has been compiled in
\* a function that declares x: both returns are reached with one value, and
\* the end of the statement with none
C23_Witness ==
    /\ pc = "statements"
    /\ function_type = "function"
    /\ Known("x")
    /\ EndsWith(consumed,
                IfElse(Cond, Return(<<ID("x")>>), While(Cond, Return(<<>>))))
    /\ out[Len(out)] = <<"label", IfEndLabel(0)>>
    /\ <<Len(out), 0>> \in Points(Tail(out))
    /\ Cardinality({ p \in Points(Tail(out)) :
                        /\ p[1] < Len(out)
                        /\ out[p[1] + 1] = <<"return">>
                        /\ p[2] = 1 }) = 2

\* C24: the comment removal terminates for every text: every iteration of
\* its loop moves the scan position strictly forward, none fails, and the
\* loop is left when the position has reached the end of the text; and an
\* iteration that starts at the opening quote of a string constant keeps
\* the whole string constant.
C24_RemoveCommentsAdvances ==
    /\ [](pc # "IndexError")
    /\ [](pc = "remove_comments" => cur_idx \in 0..Len(input_file_str))
    /\ [][ pc = "remove_comments" /\ pc' # "comments_removed" =>
             /\ cur_idx' > cur_idx
             /\ LET quot_end ==
                        Find(input_file_str, <<"\"">>, cur_idx + 1)
                IN  input_file_str[cur_idx + 1] = "\"" /\ quot_end >= 0 =>
                        /\ cur_idx' > quot_end
                        /\ Len(comment_free_str') >=
                               Len(comment_free_str) + quot_end + 1 - cur_idx
                        /\ SubSeq(comment_free_str',
                                  Len(comment_free_str) + 1,
                                  Len(comment_free_str) + quot_end + 1 - cur_idx)
                             = Slice(input_file_str, cur_idx, quot_end + 1)
         ]_vars

=============================================================================
